---- MODULE Spec2Model ----
(***************************************************************************)
(* Model of the Markdown-to-EPUB packaging engine of pdf2epub              *)
(* (src/pdf2epub/mark2epub.py).                                            *)
(*                                                                         *)
(* Python strings whose characters matter (file names, hrefs, ids, zip     *)
(* member names) are sequences of one-character strings, so that           *)
(* str.split, str.endswith, the `in` substring test and "{:05d}".format    *)
(* are computed the way the code computes them.  Strings of which only the *)
(* identity and the emptiness matter (metadata values, user replies) are   *)
(* TLA+ strings.                                                           *)
(***************************************************************************)
EXTENDS Integers, Sequences, FiniteSets, TLC

----------------------------------------------------------------------------
(* Bounds of the model *)

\* longest chapter list a description.json declares
MaxChapters == 3
\* longest sequence of image references in one markdown file
MaxRefs == 2
\* most entries of the images/ directory
MaxImages == 2
\* most prompts that one review of a markdown file issues
MaxPrompts == 2
\* largest width and height of a source image, in pixels
MaxSide == 8
\* largest max_dimension passed to copy_and_optimize_image
MaxDimension == 5

----------------------------------------------------------------------------
(* String helpers *)

\* the characters of the model, in code-point order
Alphabet ==
  <<" ", "-", ".", "/", "0", "1", "2", "3", "4", "5", "6", "7", "8", "9",
    "B", "C", "F", "G", "I", "M", "N", "O", "P", "S", "T", "X",
    "a", "b", "c", "d", "e", "f", "g", "h", "i", "j", "k", "l", "m", "n",
    "o", "p", "q", "r", "s", "t", "u", "v", "w", "x", "y", "z">>

Ord(c) == CHOOSE k \in 1..Len(Alphabet) : Alphabet[k] = c

\* s < t in Python's string order
RECURSIVE StrLess(_, _)
StrLess(s, t) ==
  IF t = <<>> THEN FALSE
  ELSE IF s = <<>> THEN TRUE
  ELSE IF Head(s) = Head(t) THEN StrLess(Tail(s), Tail(t))
  ELSE Ord(Head(s)) < Ord(Head(t))

\* position of the first "." of s, Len(s)+1 when there is none
RECURSIVE FirstDot(_, _)
FirstDot(s, k) ==
  IF k > Len(s) THEN k
  ELSE IF s[k] = "." THEN k
  ELSE FirstDot(s, k + 1)

\* position of the last "." of s, 0 when there is none
RECURSIVE LastDot(_, _)
LastDot(s, k) ==
  IF k = 0 THEN 0
  ELSE IF s[k] = "." THEN k
  ELSE LastDot(s, k - 1)

\* s.split(".")[0]
SplitFirst(s) == SubSeq(s, 1, FirstDot(s, 1) - 1)

\* s.split(".")[-1]
SplitLast(s) == SubSeq(s, LastDot(s, Len(s)) + 1, Len(s))

\* Path(s).suffix
Suffix(s) ==
  LET d == LastDot(s, Len(s))
  IN  IF d <= 1 \/ d = Len(s) THEN <<>> ELSE SubSeq(s, d, Len(s))

\* s.lower(), over the upper-case letters of the model's names
Lower(s) ==
  [k \in 1..Len(s) |->
     CASE s[k] = "P" -> "p" [] s[k] = "N" -> "n" [] s[k] = "G" -> "g" [] OTHER -> s[k]]

\* s.endswith(suf)
EndsWith(s, suf) ==
  /\ Len(suf) <= Len(s)
  /\ SubSeq(s, Len(s) - Len(suf) + 1, Len(s)) = suf

\* sub in s
Contains(sub, s) ==
  \E k \in 0..(Len(s) - Len(sub)) : SubSeq(s, k + 1, k + Len(sub)) = sub

Digit(n) == <<"0", "1", "2", "3", "4", "5", "6", "7", "8", "9">>[n + 1]

RECURSIVE Digits(_)
Digits(n) == IF n < 10 THEN <<Digit(n)>> ELSE Digits(n \div 10) \o <<Digit(n % 10)>>

RECURSIVE ZeroPad(_, _)
ZeroPad(s, w) == IF Len(s) >= w THEN s ELSE ZeroPad(<<"0">> \o s, w)

\* "{:05d}".format(n)
Fmt05d(n) == ZeroPad(Digits(n), 5)

\* the elements of a sequence
Range(s) == {s[k] : k \in 1..Len(s)}

\* x in lst
InList(x, lst) == \E k \in 1..Len(lst) : lst[k] = x

\* sequences over S of length at most n
SeqsUpTo(S, n) == UNION {[1..k -> S] : k \in 0..n}

\* sorted(S) for a set of strings
RECURSIVE SortedStrs(_)
SortedStrs(S) ==
  IF S = {} THEN <<>>
  ELSE LET m == CHOOSE x \in S : \A y \in S \ {x} : StrLess(x, y)
       IN  <<m>> \o SortedStrs(S \ {m})

----------------------------------------------------------------------------
(* String literals of the program *)

DotMd    == <<".", "m", "d">>
DotEpub  == <<".", "e", "p", "u", "b">>
DotXhtml == <<".", "x", "h", "t", "m", "l">>
GIF      == <<"g", "i", "f">>
JPG      == <<"j", "p", "g">>
JPEG     == <<"j", "p", "e", "g">>
PNG      == <<"p", "n", "g">>
ImagesSlash == <<"i", "m", "a", "g", "e", "s", "/">>
CssSlash    == <<"c", "s", "s", "/">>
OpsSlash    == <<"O", "P", "S", "/">>
ImagesName  == <<"i", "m", "a", "g", "e", "s">>
MimetypeName  == <<"m", "i", "m", "e", "t", "y", "p", "e">>
ContainerName == <<"M", "E", "T", "A", "-", "I", "N", "F", "/",
                   "c", "o", "n", "t", "a", "i", "n", "e", "r", ".", "x", "m", "l">>
PackageOpf    == <<"p", "a", "c", "k", "a", "g", "e", ".", "o", "p", "f">>
TitlepageXhtml == <<"t", "i", "t", "l", "e", "p", "a", "g", "e">> \o DotXhtml
TocXhtml      == <<"T", "O", "C">> \o DotXhtml
TocNcx        == <<"t", "o", "c", ".", "n", "c", "x">>
TitlepageId   == <<"t", "i", "t", "l", "e", "p", "a", "g", "e">>
TocId         == <<"t", "o", "c">>
NcxId         == <<"n", "c", "x">>
StyleCss      == <<"s", "t", "y", "l", "e", ".", "c", "s", "s">>

----------------------------------------------------------------------------
(* Package Document Builder: the three documents, as the element lists    *)
(* that the XML text serialises                                           *)

\* the metadata keys, in the insertion order of the dict that
\* get_metadata_from_user builds
Fields == <<"dc:title", "dc:creator", "dc:identifier", "dc:language",
            "dc:rights", "dc:publisher", "dc:date">>

FieldSet == Range(Fields)

\* the id attribute that get_packageOPF_XML puts on a metadata element
MetaIdLabel(k) ==
  IF k = "dc:title" THEN "title"
  ELSE IF k = "dc:creator" THEN "creator"
  ELSE IF k = "dc:identifier" THEN "book-id"
  ELSE ""

\* an element for every value, the empty ones included
EmitsElementAlways(v) == TRUE

\* if len(v): whether a metadata value gets an element
EmitsElement(v) == v # ""

\* one element per metadata entry v with len(v) > 0
RECURSIVE OPFMetadataFrom(_, _)
OPFMetadataFrom(md, k) ==
  IF k > Len(Fields) THEN <<>>
  ELSE LET key == Fields[k]
           rest == OPFMetadataFrom(md, k + 1)
       IN  IF key \in DOMAIN md /\ EmitsElement(md[key])
           THEN <<[tag |-> key, id |-> MetaIdLabel(key), name |-> "",
                   text |-> md[key], content |-> <<>>]>> \o rest
           ELSE rest

\* "s{:05d}".format(i)
ChapterId(i) == <<"s">> \o Fmt05d(i)

\* "s{:05d}-{}.xhtml".format(i, md_filename.split(".")[0])
ChapterHref(i, md_filename) ==
  <<"s">> \o Fmt05d(i) \o <<"-">> \o SplitFirst(md_filename) \o DotXhtml

ImageId(i) == <<"i", "m", "a", "g", "e", "-">> \o Fmt05d(i)

CssId(i) == <<"c", "s", "s", "-">> \o Fmt05d(i)

\* the if/elif chain of substring tests of get_packageOPF_XML; "" when no
\* branch sets the attribute
OPFImageMediaType(image_filename) ==
  IF Contains(GIF, image_filename) THEN "image/gif"
  ELSE IF Contains(JPG, image_filename) THEN "image/jpeg"
  ELSE IF Contains(JPEG, image_filename) THEN "image/jpg"
  ELSE IF Contains(PNG, image_filename) THEN "image/png"
  ELSE ""

\* the extension test of update_package_manifest; "" when the image is
\* skipped as unsupported
ManifestMediaType(image_filename) ==
  LET ext == Lower(Suffix(image_filename))
  IN  IF ext \in {<<".">> \o JPG, <<".">> \o JPEG} THEN "image/jpeg"
      ELSE IF ext = <<".">> \o PNG THEN "image/png"
      ELSE IF ext = <<".">> \o GIF THEN "image/gif"
      ELSE ""

Item(id, href, mt, props) ==
  [id |-> id, href |-> href, media_type |-> mt, properties |-> props]

OPFFixedItems ==
  << Item(TocId, TocXhtml, "application/xhtml+xml", "nav"),
     Item(NcxId, TocNcx, "application/x-dtbncx+xml", ""),
     Item(TitlepageId, TitlepageXhtml, "application/xhtml+xml", "") >>

OPFChapterItems(md_filenames) ==
  [i \in 1..Len(md_filenames) |->
     Item(ChapterId(i - 1), ChapterHref(i - 1, md_filenames[i]),
          "application/xhtml+xml", "")]

\* every image taken for the cover
IsCoverAlways(image_filename, cover_image) == TRUE

\* image_filename==description_data["cover_image"]
IsCover(image_filename, cover_image) == image_filename = cover_image

OPFImageItems(image_filenames, cover_image) ==
  [i \in 1..Len(image_filenames) |->
     Item(ImageId(i - 1), ImagesSlash \o image_filenames[i],
          OPFImageMediaType(image_filenames[i]),
          IF IsCover(image_filenames[i], cover_image) THEN "cover-image" ELSE "")]

OPFCssItems(css_filenames) ==
  [i \in 1..Len(css_filenames) |->
     Item(CssId(i - 1), CssSlash \o css_filenames[i], "text/css", "")]

\* the <meta name="cover"> elements appended while the images are enumerated
RECURSIVE OPFCoverMeta(_, _, _)
OPFCoverMeta(image_filenames, cover_image, i) ==
  IF i > Len(image_filenames) THEN <<>>
  ELSE (IF IsCover(image_filenames[i], cover_image)
        THEN <<[tag |-> "meta", id |-> "", name |-> "cover", text |-> "",
                content |-> ImageId(i - 1)]>>
        ELSE <<>>) \o OPFCoverMeta(image_filenames, cover_image, i + 1)

OPFSpine(md_filenames) ==
  <<[idref |-> TitlepageId, linear |-> "yes"]>> \o
  [i \in 1..Len(md_filenames) |-> [idref |-> ChapterId(i - 1), linear |-> "yes"]]

get_packageOPF_XML(md_filenames, image_filenames, css_filenames, description_data) ==
  [ unique_identifier |-> "pub-id",
    metadata |-> OPFMetadataFrom(description_data.metadata, 1) \o
                 OPFCoverMeta(image_filenames, description_data.cover_image, 1),
    manifest |-> OPFFixedItems \o OPFChapterItems(md_filenames) \o
                 OPFImageItems(image_filenames, description_data.cover_image) \o
                 OPFCssItems(css_filenames),
    spine |-> OPFSpine(md_filenames) ]

\* TOC.xhtml: the stylesheet links and the nav list
get_TOC_XML(default_css_filenames, markdown_filenames) ==
  [ css |-> [i \in 1..Len(default_css_filenames) |->
               CssSlash \o default_css_filenames[i]],
    links |-> [i \in 1..Len(markdown_filenames) |->
                 [href |-> ChapterHref(i - 1, markdown_filenames[i]),
                  label |-> SplitFirst(markdown_filenames[i])]] ]

\* get_TOCNCX_XML with the navPoints numbered from 1 instead of 0
get_TOCNCX_XML_OffByOne(markdown_filenames) ==
  [i \in 1..Len(markdown_filenames) |->
     [id |-> i,
      label |-> SplitFirst(markdown_filenames[i]),
      src |-> ChapterHref(i, markdown_filenames[i])]]

\* toc.ncx: the navPoints of the navMap
get_TOCNCX_XML(markdown_filenames) ==
  [i \in 1..Len(markdown_filenames) |->
     [id |-> i - 1,
      label |-> SplitFirst(markdown_filenames[i]),
      src |-> ChapterHref(i - 1, markdown_filenames[i])]]

\* the documents before they are generated
NoOPF == [unique_identifier |-> "", metadata |-> <<>>, manifest |-> <<>>, spine |-> <<>>]
NoTOC == [css |-> <<>>, links |-> <<>>]

----------------------------------------------------------------------------
(* Chapter Renderer *)

\* pathlib.Path of an image reference: absolute or not, and its components
PathOf(abs, parts) == [abs |-> abs, parts |-> parts]

\* Path.name: the last component, "" for a path without components
PathName(p) == IF p.parts = <<>> THEN <<>> ELSE p.parts[Len(p.parts)]

\* Path.is_absolute()
IsAbsolute(p) == p.abs

\* whether img_path.relative_to(work_dir) returns (it raises ValueError
\* when img_path is not below work_dir)
RelativeToOk(p, work_dir) ==
  /\ Len(work_dir) <= Len(p.parts)
  /\ SubSeq(p.parts, 1, Len(work_dir)) = work_dir

DotDot == <<".", ".">>

\* (work_dir / 'images' / name).exists(): joining "" gives images/ itself
\* and ".." resolves through images/, a file name must be in the directory
ImagePathExists(name, images_dir, images) ==
  /\ images_dir
  /\ \/ name = <<>>
     \/ name = DotDot
     \/ InList(name, images)

\* an image reference ![alt](path) of a markdown text
Ref(alt, path) == [alt |-> alt, path |-> path]

\* f'![{alt_text}](images/{img_path.name})'
NewRef(ref) == Ref(ref.alt, PathOf(FALSE, <<ImagesName, PathName(ref.path)>>))

\* modified_text.replace(old, new) on the references of the text
ReplaceRef(text, old, new) ==
  [k \in 1..Len(text) |-> IF text[k] = old THEN new ELSE text[k]]

\* the loop of process_markdown_for_images over the matches k.. of the
\* original text; ok is FALSE when relative_to raised
RECURSIVE ProcessMatches(_, _, _, _, _, _, _)
ProcessMatches(markdown_text, k, modified_text, images_found, work_dir, images_dir, images) ==
  IF k > Len(markdown_text)
  THEN [ok |-> TRUE, text |-> modified_text, images |-> images_found]
  ELSE LET match == markdown_text[k]
           img_path == match.path
       IN  IF IsAbsolute(img_path) /\ ~RelativeToOk(img_path, work_dir)
           THEN [ok |-> FALSE, text |-> modified_text, images |-> images_found]
           ELSE IF ImagePathExists(PathName(img_path), images_dir, images)
           THEN ProcessMatches(markdown_text, k + 1,
                               ReplaceRef(modified_text, match, NewRef(match)),
                               Append(images_found, PathName(img_path)),
                               work_dir, images_dir, images)
           ELSE ProcessMatches(markdown_text, k + 1, modified_text, images_found,
                               work_dir, images_dir, images)

process_markdown_for_images(markdown_text, work_dir, images_dir, images) ==
  ProcessMatches(markdown_text, 1, markdown_text, <<>>, work_dir, images_dir, images)

\* the XHTML document of a chapter: its stylesheet links and its body
ChapterXHTML(css_filenames, body) ==
  [kind |-> "xhtml",
   css |-> [i \in 1..Len(css_filenames) |-> CssSlash \o css_filenames[i]],
   body |-> body, text |-> "", of |-> <<>>]

\* get_chapter_XML with the content that main passes
get_chapter_XML(work_dir, css_filenames, content, images_dir, images) ==
  LET r == process_markdown_for_images(content, work_dir, images_dir, images)
  IN  [ok |-> r.ok, xhtml |-> ChapterXHTML(css_filenames, r.text), images |-> r.images]

\* contents of the other archive members
TextData(t) == [kind |-> "text", css |-> <<>>, body |-> <<>>, text |-> t, of |-> <<>>]
FileData(kind, name) == [kind |-> kind, css |-> <<>>, body |-> <<>>, text |-> "", of |-> name]

----------------------------------------------------------------------------
(* Asset Resolver: the metadata prompts *)

\* str.strip() of a reply typed at a prompt
Strip(r) == IF r = " " THEN "" ELSE r

\* get_user_input deaf to the reply
get_user_input_Default(reply, default) == default

\* get_user_input: the stripped reply, or the default when it is empty
get_user_input(reply, default) == IF Strip(reply) # "" THEN Strip(reply) ELSE default

\* the hard-coded defaults; the identifier and the date come from the clock
HardDefault(key, t) ==
  CASE key = "dc:title"      -> "Untitled Document"
    [] key = "dc:creator"    -> "Unknown Author"
    [] key = "dc:identifier" -> <<"id-20260101000001", "id-20260102000002", "id-20260103000003">>[t]
    [] key = "dc:language"   -> "en"
    [] key = "dc:rights"     -> "All rights reserved"
    [] key = "dc:publisher"  -> "PDF2EPUB"
    [] key = "dc:date"       -> <<"2026-01-01", "2026-01-02", "2026-01-03">>[t]

\* the parsed description.json; has_css tells whether the default_css key is
\* present, an absent chapters key reads as [] and an absent cover_image
\* as None (the empty name)
Descriptor(md, has_css, css, chapters, cover) ==
  [metadata |-> md, has_css |-> has_css, default_css |-> css,
   chapters |-> chapters, cover_image |-> cover]

\* existing_metadata = {}
EmptyDescriptor == Descriptor(<<>>, FALSE, <<>>, <<>>, <<>>)

\* get_metadata_from_user with the stored values ignored
get_metadata_from_user_Fresh(existing_metadata, reply, t) ==
  [metadata |-> [key \in FieldSet |-> get_user_input(reply[key], HardDefault(key, t))],
   default_css |-> IF existing_metadata.has_css
                   THEN existing_metadata.default_css ELSE <<StyleCss>>,
   chapters |-> existing_metadata.chapters,
   cover_image |-> existing_metadata.cover_image]

get_metadata_from_user(existing_metadata, reply, t) ==
  LET metadata == existing_metadata.metadata
      default(key) == IF key \in DOMAIN metadata THEN metadata[key]
                      ELSE HardDefault(key, t)
  IN  [metadata |-> [key \in FieldSet |-> get_user_input(reply[key], default(key))],
       default_css |-> IF existing_metadata.has_css
                       THEN existing_metadata.default_css ELSE <<StyleCss>>,
       chapters |-> existing_metadata.chapters,
       cover_image |-> existing_metadata.cover_image]

\* {"markdown": md_file, "css": css}
Chapter(md, css) == [markdown |-> md, css |-> css]

\* json_data["chapters"].append(...) for md_file in sorted(markdown_files)
ScannedChapters(files) ==
  LET sorted == SortedStrs({f \in files : EndsWith(f, DotMd)})
  IN  [k \in 1..Len(sorted) |-> Chapter(sorted[k], <<>>)]

\* get_all_filenames(the_dir, extensions) on the listing of the directory
get_all_filenames(listing, extensions) ==
  SelectSeq(listing, LAMBDA x : SplitLast(x) \in extensions)

\* the first loop of "Compile list of files": the markdown names, each once
RECURSIVE CompileMd(_, _, _)
CompileMd(chapters, k, acc) ==
  IF k > Len(chapters) THEN acc
  ELSE CompileMd(chapters, k + 1,
                 IF InList(chapters[k].markdown, acc) THEN acc
                 ELSE Append(acc, chapters[k].markdown))

\* a loop that leaves the stylesheets of the chapters out
CompileCss_DefaultsOnly(chapters, k, acc) == acc

\* the same loop for the stylesheets, starting from default_css[:]
RECURSIVE CompileCss(_, _, _)
CompileCss(chapters, k, acc) ==
  IF k > Len(chapters) THEN acc
  ELSE CompileCss(chapters, k + 1,
                  IF Len(chapters[k].css) > 0 /\ ~InList(chapters[k].css, acc)
                  THEN Append(acc, chapters[k].css) ELSE acc)

\* css_files of one chapter in the first pass
ChapterCssFiles(default_css, chapter) ==
  IF chapter.css # <<>> THEN Append(default_css, chapter.css) ELSE default_css

----------------------------------------------------------------------------
(* Image Pipeline: the sizes of copy_and_optimize_image *)

\* min(img.size[0], img.size[1])
ShortestSide(size) == IF size[1] <= size[2] THEN size[1] ELSE size[2]

\* max(img.size[0], img.size[1])
LongestSide(size) == IF size[1] >= size[2] THEN size[1] ELSE size[2]

\* ratio < 1.0 for ratio = min(max_dimension / longest, 1.0)
RatioBelowOne(max_dimension, longest) == max_dimension < longest

\* int(dim * ratio) when ratio < 1.0: the quotient is truncated; where
\* dim * max_dimension / longest is a whole number the product of the two
\* floats may fall just below it (49 * (1 / 49) = 0.9999999999999999), and
\* lost tells whether it did
ScaledDim(dim, max_dimension, longest, lost) ==
  (dim * max_dimension) \div longest - (IF lost THEN 1 ELSE 0)

\* whether the float product can fall below the quotient
MayLose(dim, max_dimension, longest) == (dim * max_dimension) % longest = 0

\* the state of one call copy_and_optimize_image(src_path, dest_path,
\* max_dimension): at is "source" before the call, "opened" after
\* Image.open, "saved" once dest_path is written, "raised" if it raised
ImageCall(pil_available, size, max_dimension, at, saved_size) ==
  [pil_available |-> pil_available, size |-> size, max_dimension |-> max_dimension,
   at |-> at, saved_size |-> saved_size]

\* no call of copy_and_optimize_image followed on its own
NoImageCall == ImageCall(TRUE, <<1, 1>>, 1, "none", <<0, 0>>)

----------------------------------------------------------------------------
(* The inputs of a run *)

A_md   == <<"a">> \o DotMd
B_md   == <<"b">> \o DotMd
A_b_md == <<"a", "-", "b">> \o DotMd
N_txt  == <<"n", ".", "t", "x", "t">>
X_css  == <<"x", ".", "c", "s", "s">>
P_png  == <<"p", ".">> \o PNG
Z_png  == <<"z", ".">> \o PNG
A_jpeg == <<"a", ".">> \o JPEG
B_jpg  == <<"b", ".">> \o JPG
C_gif  == <<"c", ".">> \o GIF
Gif_png == GIF \o <<".">> \o PNG
Q_PNG  == <<"q", ".", "P", "N", "G">>
Book   == <<"b", "o", "o", "k">>
Out    == <<"o", "u", "t">>
Tmp    == <<"t", "m", "p">>

\* the chapter directory, and the output paths a caller passes
BookDir == <<Book>>
OutputArgs == {<<Out, Book \o DotEpub>>, <<Book, Book \o DotEpub>>, <<Out>>}

\* image references: relative, without directory, absolute below the work
\* directory, absolute outside it, to a file that images/ lacks, empty, and
\* to an image that is neither JPEG nor PNG
RefRelative == Ref("fig", PathOf(FALSE, <<ImagesName, P_png>>))
RefBare     == Ref("fig", PathOf(FALSE, <<A_jpeg>>))
RefInside   == Ref("pic", PathOf(TRUE, <<Book, ImagesName, P_png>>))
RefOutside  == Ref("fig", PathOf(TRUE, <<Tmp, P_png>>))
RefMissing  == Ref("fig", PathOf(FALSE, <<ImagesName, Z_png>>))
RefEmpty    == Ref("fig", PathOf(FALSE, <<>>))
RefGif      == Ref("anim", PathOf(FALSE, <<ImagesName, C_gif>>))
RefUpper    == Ref("fig", PathOf(FALSE, <<ImagesName, Q_PNG>>))
RefPool == {RefRelative, RefBare, RefInside, RefOutside, RefMissing, RefEmpty, RefGif}

Texts == SeqsUpTo(RefPool, MaxRefs)

ImagePool == {P_png, A_jpeg, B_jpg, C_gif, Gif_png}

\* os.listdir(images/): the entries, in the order the system lists them
Listings == {l \in SeqsUpTo(ImagePool, MaxImages) :
               \A i, j \in 1..Len(l) : i # j => l[i] # l[j]}

ChapterPool == {Chapter(A_md, <<>>), Chapter(B_md, <<>>), Chapter(A_md, X_css)}

ChapterLists == SeqsUpTo(ChapterPool, MaxChapters)

CssLists == {<<>>, <<StyleCss>>, <<StyleCss, X_css>>, <<StyleCss, StyleCss>>}

\* the cover_image of a description.json: null, a name that images/ may
\* list, a name that it never lists
CoverNames == {<<>>, P_png, A_jpeg, Z_png}

\* what the user types at a metadata prompt
Replies == {"", " ", "My Reply"}

NoReplies == [key \in FieldSet |-> ""]

\* metadata of a description.json: the title and the identifier absent,
\* empty or set
StoredMetadata ==
  {md \in UNION {[D -> {"", "Stored"}] : D \in SUBSET {"dc:title", "dc:identifier", "dc:date"}} : TRUE}

Times == {1, 2}

\* the title in the <name>_metadata.json that the PDF extraction leaves in
\* the chapter directory, "" when the directory has no such file
ExtractionTitles == {"", "Extracted Title"}

\* the file system: the chapter directory and its entries, description.json,
\* the extraction metadata, images/ and css/, and the text of each markdown
\* file
FileSystem(dir_exists, files, has_desc, desc, images_dir, images, css_dir, css, text) ==
  [dir_exists |-> dir_exists, files |-> files, has_desc |-> has_desc, desc |-> desc,
   extraction |-> "",
   images_dir |-> images_dir, images |-> images, css_dir |-> css_dir, css |-> css,
   text |-> text]

BaseText == [f \in {A_md, B_md} |-> IF f = A_md THEN <<RefRelative>> ELSE <<>>]

BaseFS ==
  FileSystem(TRUE, {A_md, B_md}, FALSE, EmptyDescriptor, TRUE, <<P_png>>,
             TRUE, {StyleCss}, BaseText)

\* no call of run_postprocessing under way
NoAI == [at |-> "none"]

\* no run of cli.main under way
NoCli == [at |-> "none"]

----------------------------------------------------------------------------
(* State *)

VARIABLES
  pc,                    \* position of the run
  err,                   \* the exception that ended it, "" if none
  builder,               \* "pdf2epub" or "modules": which mark2epub.py runs
  entry,                 \* "main" or "convert_to_epub"
  markdown_dir,          \* the chapter directory the caller names
  output_arg,            \* the output path the caller names
  pil,                   \* PIL_AVAILABLE
  replies,               \* the user's replies to the seven metadata prompts
  now,                   \* datetime.now()
  run,                   \* 1 for the first build of the directory, 2 for a repeat
  first,                 \* what the first build found and left
  image_call,            \* a call of copy_and_optimize_image followed by itself
  ai,                    \* a call of AIPostprocessor.run_postprocessing followed by itself
  cli,                   \* a run of cli.main followed by itself
  fs,                    \* the file system
  work_dir, output_path, \* args[0], args[1] of main
  json_data,
  declared,              \* whether description.json declared the chapters
  content,               \* content of review_markdown
  idx,                   \* index of the running loop
  asked,                 \* prompts issued by the running review_markdown
  chapter_contents,
  all_md_filenames, all_css_filenames, all_image_filenames,
  chapter_data, all_referenced_images,
  processed_images,      \* the dict, as its items in insertion order
  todo,                  \* what a loop over a set has still to visit
  raised,                \* the images on which copy_and_optimize_image raised
  archive_path,          \* path of the zip file created, <<>> if none
  archive,               \* its members, in the order written
  opf, toc, ncx          \* the documents generated for it

inputs == <<builder, entry, markdown_dir, output_arg, pil, replies, now, run, first, image_call,
            ai, cli>>
lists  == <<all_md_filenames, all_css_filenames, all_image_filenames>>
docs   == <<opf, toc, ncx>>
zip    == <<archive_path, archive>>
vars == <<pc, err, inputs, fs, work_dir, output_path, json_data, declared, content, idx,
          asked, chapter_contents, lists, chapter_data, all_referenced_images,
          processed_images, todo, raised, zip, docs>>

NoJson == [metadata |-> <<>>, default_css |-> <<>>, chapters |-> <<>>, cover_image |-> <<>>]

\* the state of the locals before main runs
InitLocals ==
  /\ pc = "start"
  /\ err = ""
  /\ work_dir = <<>>
  /\ output_path = <<>>
  /\ json_data = NoJson
  /\ declared = FALSE
  /\ content = <<>>
  /\ idx = 0
  /\ asked = 0
  /\ chapter_contents = <<>>
  /\ all_md_filenames = <<>>
  /\ all_css_filenames = <<>>
  /\ all_image_filenames = <<>>
  /\ chapter_data = <<>>
  /\ all_referenced_images = {}
  /\ processed_images = <<>>
  /\ todo = {}
  /\ raised = {}
  /\ archive_path = <<>>
  /\ archive = <<>>
  /\ opf = NoOPF
  /\ toc = NoTOC
  /\ ncx = <<>>

\* callers: either entry point, any output path, a directory that may be
\* missing or hold no markdown file
InitCallers ==
  /\ builder \in {"pdf2epub", "modules"}
  /\ entry \in (IF builder = "pdf2epub" THEN {"main", "convert_to_epub"} ELSE {"main"})
  /\ markdown_dir = BookDir
  /\ output_arg \in OutputArgs
  /\ pil = TRUE
  /\ replies = NoReplies
  /\ now = 1
  /\ \E dir_exists \in BOOLEAN, images_dir \in BOOLEAN :
     \E files \in (IF dir_exists THEN SUBSET {A_md, B_md, A_b_md, N_txt} ELSE {{}}) :
       fs = FileSystem(dir_exists, files, FALSE, EmptyDescriptor,
                       dir_exists /\ images_dir,
                       IF dir_exists /\ images_dir THEN <<P_png>> ELSE <<>>,
                       dir_exists, IF dir_exists THEN {StyleCss} ELSE {},
                       [f \in files |-> IF f = A_md THEN <<RefRelative>> ELSE <<>>])

\* descriptors: any declared chapter list and default_css list, with the
\* declared files on disk or a.md missing
InitDescriptors ==
  /\ builder \in {"pdf2epub", "modules"}
  /\ entry = "main"
  /\ markdown_dir = BookDir
  /\ output_arg = <<Out, Book \o DotEpub>>
  /\ pil = TRUE
  /\ replies = NoReplies
  /\ now = 1
  /\ \E chapters \in ChapterLists, css \in CssLists, css_dir \in BOOLEAN,
        files \in {{A_md, B_md}, {B_md}} :
       fs = [BaseFS EXCEPT
               !.files = files,
               !.has_desc = TRUE,
               !.desc = Descriptor(<<>>, TRUE, css, chapters, <<>>),
               !.css_dir = css_dir,
               !.css = IF css_dir THEN {StyleCss} ELSE {}]

\* images: any listing of images/ and any references in the first chapter,
\* under a description.json that declares both chapters
InitImages ==
  /\ builder \in {"pdf2epub", "modules"}
  /\ entry = "main"
  /\ markdown_dir = BookDir
  /\ output_arg = <<Out, Book \o DotEpub>>
  /\ pil \in BOOLEAN
  /\ replies = NoReplies
  /\ now = 1
  /\ \E images \in Listings, text \in Texts :
       /\ pil = FALSE => Len(text) <= 1
       /\ fs = [BaseFS EXCEPT
                  !.has_desc = TRUE,
                  !.desc = Descriptor(<<>>, TRUE, <<StyleCss>>,
                                      <<Chapter(A_md, <<>>), Chapter(B_md, <<>>)>>, <<>>),
                  !.images = images,
                  !.text = [f \in {A_md, B_md} |-> IF f = A_md THEN text ELSE <<RefRelative>>]]

\* metadata: any stored title, identifier and date, any replies to their
\* prompts, with and without a description.json
InitMetadata ==
  /\ builder = "pdf2epub"
  /\ entry = "main"
  /\ markdown_dir = BookDir
  /\ output_arg = <<Out, Book \o DotEpub>>
  /\ pil = TRUE
  /\ now \in Times
  /\ \E rt \in Replies, ri \in Replies :
       replies = [key \in FieldSet |->
                    IF key = "dc:title" THEN rt
                    ELSE IF key = "dc:identifier" THEN ri ELSE ""]
  /\ \E has_desc \in BOOLEAN, extraction \in ExtractionTitles :
     \E md \in (IF has_desc THEN StoredMetadata ELSE {<<>>}) :
       fs = [BaseFS EXCEPT
               !.has_desc = has_desc,
               !.extraction = extraction,
               !.desc = Descriptor(md, FALSE, <<>>, <<>>, <<>>)]

\* cover images: a descriptor that names no cover, a listed image, or an
\* image that images/ lacks, over any listing of images/
InitCover ==
  /\ builder \in {"pdf2epub", "modules"}
  /\ entry = "main"
  /\ markdown_dir = BookDir
  /\ output_arg = <<Out, Book \o DotEpub>>
  /\ pil = TRUE
  /\ replies = NoReplies
  /\ now = 1
  /\ \E images \in Listings, cover \in CoverNames :
       fs = [BaseFS EXCEPT
               !.has_desc = TRUE,
               !.desc = Descriptor(<<>>, TRUE, <<StyleCss>>, <<Chapter(B_md, <<>>)>>, cover),
               !.images = images]

\* letter case: images/ lists q.PNG, alone or beside p.png, and the first
\* chapter may refer to it
InitLetterCase ==
  /\ builder \in {"pdf2epub", "modules"}
  /\ entry = "main"
  /\ markdown_dir = BookDir
  /\ output_arg = <<Out, Book \o DotEpub>>
  /\ pil \in BOOLEAN
  /\ replies = NoReplies
  /\ now = 1
  /\ \E images \in {<<Q_PNG>>, <<P_png, Q_PNG>>, <<Q_PNG, P_png>>},
        text \in {<<>>, <<RefUpper>>, <<RefRelative, RefUpper>>} :
       fs = [BaseFS EXCEPT
               !.has_desc = TRUE,
               !.desc = Descriptor(<<>>, TRUE, <<StyleCss>>,
                                   <<Chapter(A_md, <<>>), Chapter(B_md, <<>>)>>, <<>>),
               !.images = images,
               !.text = [f \in {A_md, B_md} |-> IF f = A_md THEN text ELSE <<>>]]

\* nothing is known of a first build before it ran; fresh tells that the
\* directory had no description.json, given is the chapter list that its
\* description.json declared, existing is existing_metadata as loaded
NoFirst(fsys) ==
  [fresh |-> ~fsys.has_desc,
   given |-> IF fsys.has_desc THEN fsys.desc.chapters ELSE <<>>,
   existing |-> IF fsys.has_desc THEN fsys.desc ELSE EmptyDescriptor,
   desc |-> EmptyDescriptor, built |-> FALSE, manifest |-> <<>>, spine |-> <<>>]

Init ==
  /\ InitLocals
  /\ \/ InitCallers
     \/ InitDescriptors
     \/ InitImages
     \/ InitMetadata
     \/ InitCover
     \/ InitLetterCase
  /\ run = 1
  /\ first = NoFirst(fs)
  /\ image_call = NoImageCall
  /\ ai = NoAI
  /\ cli = NoCli

----------------------------------------------------------------------------
(* Entry points *)

Fail(e) == /\ pc' = "failed"
           /\ err' = e

\* a directory taken to hold markdown files whatever it lists
GlobMdAny(files) == {N_txt}

\* list(markdown_dir.glob('*.md'))
GlobMd(files) == {f \in files : EndsWith(f, DotMd)}

\* convert_to_epub(markdown_dir, output_path)
ConvertToEpub ==
  /\ pc = "start"
  /\ entry = "convert_to_epub"
  /\ IF ~fs.dir_exists
     THEN Fail("FileNotFoundError: Markdown directory not found")
          /\ UNCHANGED <<work_dir, output_path>>
     ELSE IF GlobMd(fs.files) = {}
     THEN Fail("ValueError: No markdown files found")
          /\ UNCHANGED <<work_dir, output_path>>
     ELSE /\ pc' = "metadata"
          /\ work_dir' = markdown_dir
          /\ output_path' = markdown_dir \o <<markdown_dir[Len(markdown_dir)] \o DotEpub>>
          /\ UNCHANGED err
  /\ UNCHANGED <<inputs, fs, json_data, declared, content, idx, asked, chapter_contents, lists,
                 chapter_data, all_referenced_images, processed_images, todo, zip, docs>>
  /\ UNCHANGED raised

\* main([work_dir, output_path]) called directly
CallMain ==
  /\ pc = "start"
  /\ entry = "main"
  /\ pc' = IF builder = "pdf2epub" THEN "metadata" ELSE "m_load"
  /\ work_dir' = markdown_dir
  /\ output_path' = output_arg
  /\ UNCHANGED <<err, inputs, fs, json_data, declared, content, idx, asked, chapter_contents, lists,
                 chapter_data, all_referenced_images, processed_images, todo, zip, docs>>
  /\ UNCHANGED raised

----------------------------------------------------------------------------
(* main: descriptor, prompts, review *)

\* a main that leaves description.json as it found it
SaveDescription_Never(fsys, data) == fsys

\* json.dump(json_data, f, indent=2) into description.json
SaveDescription(fsys, data) ==
  [fsys EXCEPT !.has_desc = TRUE,
               !.desc = Descriptor(data.metadata, TRUE, data.default_css,
                                   data.chapters, data.cover_image)]

\* read description.json, prompt for the metadata, scan for chapters when
\* none is declared, save description.json
GetMetadata ==
  /\ pc = "metadata"
  /\ LET existing_metadata == IF fs.has_desc THEN fs.desc ELSE EmptyDescriptor
         prompted == get_metadata_from_user(existing_metadata, replies, now)
         data == IF prompted.chapters = <<>>
                 THEN [prompted EXCEPT !.chapters = ScannedChapters(fs.files)]
                 ELSE prompted
     IN  IF ~fs.dir_exists
         THEN Fail("FileNotFoundError: os.listdir") /\ UNCHANGED <<fs, json_data, declared, idx>>
         ELSE /\ json_data' = data
              /\ declared' = (prompted.chapters # <<>>)
              /\ fs' = SaveDescription(fs, data)
              /\ pc' = IF data.chapters = <<>> THEN "compile" ELSE "review"
              /\ idx' = 1
              /\ UNCHANGED err
  /\ UNCHANGED <<inputs, work_dir, output_path, content, asked, chapter_contents, lists,
                 chapter_data, all_referenced_images, processed_images, todo, zip, docs>>
  /\ UNCHANGED raised

\* review_markdown: markdown_path.read_text
ReviewRead ==
  /\ pc = "review"
  /\ LET md == json_data.chapters[idx].markdown
     IN  IF md \notin fs.files
         THEN Fail("FileNotFoundError: read_text") /\ UNCHANGED <<content, asked>>
         ELSE /\ pc' = "review_ask"
              /\ content' = fs.text[md]
              /\ asked' = 0
              /\ UNCHANGED err
  /\ UNCHANGED <<inputs, fs, work_dir, output_path, json_data, declared, idx, chapter_contents, lists,
                 chapter_data, all_referenced_images, processed_images, todo, zip, docs>>
  /\ UNCHANGED raised

\* a main whose loop over the chapters never advances
Reviewed_SameChapter(c) ==
  /\ chapter_contents' = (json_data.chapters[idx].markdown :> c) @@ chapter_contents
  /\ pc' = "review"
  /\ idx' = idx

\* review_markdown returned (True, c): main stores it and goes on
Reviewed(c) ==
  /\ chapter_contents' = (json_data.chapters[idx].markdown :> c) @@ chapter_contents
  /\ IF idx < Len(json_data.chapters)
     THEN pc' = "review" /\ idx' = idx + 1
     ELSE pc' = "compile" /\ idx' = 1

\* the prompt "Would you like to review the markdown file" and its reply
ReviewAsk ==
  /\ pc = "review_ask"
  /\ \E response \in {"y", "n", "other"}, opened \in BOOLEAN :
       \/ /\ response = "n"
          /\ opened
          /\ Reviewed(content)
          /\ UNCHANGED <<asked, err>>
       \/ /\ response = "y"
          /\ ~opened
          /\ Reviewed(content)
          /\ UNCHANGED <<asked, err>>
       \/ /\ response = "y"
          /\ opened
          /\ pc' = "review_edit"
          /\ asked' = 0
          /\ UNCHANGED <<idx, chapter_contents, err>>
       \/ /\ response = "other"
          /\ opened
          /\ pc' = "review_again"
          /\ asked' = IF asked < MaxPrompts THEN asked + 1 ELSE asked
          /\ UNCHANGED <<idx, chapter_contents, err>>
  /\ UNCHANGED <<inputs, fs, work_dir, output_path, json_data, declared, content, lists,
                 chapter_data, all_referenced_images, processed_images, todo, zip, docs>>
  /\ UNCHANGED raised

\* the prompt "Press Enter when you're done editing (or 'q' to abort)";
\* on Enter the file is read again, as the user left it
ReviewEdit ==
  /\ pc = "review_edit"
  /\ LET md == json_data.chapters[idx].markdown
     IN  \E proceed \in {"q", "", "other"}, edited \in {fs.text[md], <<>>} :
           \/ /\ proceed = "q"
              /\ edited = fs.text[md]
              /\ pc' = "aborted"
              /\ UNCHANGED <<fs, idx, asked, chapter_contents>>
           \/ /\ proceed = ""
              /\ fs' = [fs EXCEPT !.text[md] = edited]
              /\ Reviewed(edited)
              /\ UNCHANGED asked
           \/ /\ proceed = "other"
              /\ edited = fs.text[md]
              /\ pc' = "review_edit_again"
              /\ asked' = IF asked < MaxPrompts THEN asked + 1 ELSE asked
              /\ UNCHANGED <<fs, idx, chapter_contents>>
  /\ UNCHANGED <<err, inputs, work_dir, output_path, json_data, declared, content, lists,
                 chapter_data, all_referenced_images, processed_images, todo, zip, docs>>
  /\ UNCHANGED raised

\* review_markdown's two `while True` loops: a reply that is none of the
\* recognised ones leads back to the same prompt; asked counts them up to
\* MaxPrompts and then stays, the loop itself has no counter
ReviewAgain ==
  /\ pc \in {"review_again", "review_edit_again"}
  /\ pc' = IF pc = "review_again" THEN "review_ask" ELSE "review_edit"
  /\ UNCHANGED <<err, inputs, fs, work_dir, output_path, json_data, declared, content, idx, asked,
                 chapter_contents, lists, chapter_data, all_referenced_images,
                 processed_images, todo, zip, docs>>
  /\ UNCHANGED raised

----------------------------------------------------------------------------
(* main: file lists, first pass over the chapters, image processing *)

ImageExtensions == {GIF, JPG, JPEG, PNG}

\* "Compile list of files" and get_all_filenames(images_dir, ...), whose
\* os.listdir raises when images/ is missing
CompileLists ==
  /\ pc = "compile"
  /\ IF ~fs.images_dir
     THEN Fail("FileNotFoundError: os.listdir") /\ UNCHANGED <<lists, idx>>
     ELSE /\ all_md_filenames' = CompileMd(json_data.chapters, 1, <<>>)
          /\ all_css_filenames' = CompileCss(json_data.chapters, 1, json_data.default_css)
          /\ all_image_filenames' = get_all_filenames(fs.images, ImageExtensions)
          /\ pc' = IF json_data.chapters = <<>> THEN "zip_open" ELSE "render"
          /\ idx' = 1
          /\ UNCHANGED err
  /\ UNCHANGED <<inputs, fs, work_dir, output_path, json_data, declared, content, asked,
                 chapter_contents, chapter_data, all_referenced_images,
                 processed_images, todo, zip, docs>>
  /\ UNCHANGED raised

\* one iteration of the first pass: get_chapter_XML of chapter idx
RenderChapter ==
  /\ pc = "render"
  /\ LET chapter == json_data.chapters[idx]
         css_files == ChapterCssFiles(json_data.default_css, chapter)
         r == get_chapter_XML(work_dir, css_files, chapter_contents[chapter.markdown],
                              fs.images_dir, fs.images)
         referenced == all_referenced_images \cup Range(r.images)
     IN  IF ~r.ok
         THEN Fail("ValueError: relative_to")
              /\ UNCHANGED <<chapter_data, all_referenced_images, idx, todo>>
         ELSE /\ chapter_data' = (chapter.markdown :> r.xhtml) @@ chapter_data
              /\ all_referenced_images' = referenced
              /\ IF idx < Len(json_data.chapters)
                 THEN pc' = "render" /\ idx' = idx + 1 /\ UNCHANGED todo
                 ELSE /\ idx' = 1
                      /\ todo' = referenced
                      /\ pc' = IF fs.images_dir /\ referenced # {}
                               THEN "optimize" ELSE "zip_open"
              /\ UNCHANGED err
  /\ UNCHANGED <<inputs, fs, work_dir, output_path, json_data, declared, content, asked,
                 chapter_contents, lists, processed_images, zip, docs>>
  /\ UNCHANGED raised

\* what copy_and_optimize_image leaves at dest_path for main to read back:
\* "optimized" bytes, a "copy" of the source, or "none" (it raised, or it
\* saved under another name); decodes tells whether Image.open and save work
OptimizeOutcome(image, pil_available, decodes) ==
  IF image \in {<<>>, DotDot} THEN "none"
  ELSE IF ~pil_available THEN "copy"
  ELSE IF ~decodes THEN "none"
  ELSE IF Lower(Suffix(image)) \in {<<".">> \o JPG, <<".">> \o JPEG, <<".">> \o PNG}
       THEN "optimized"
  ELSE "none"

\* whether copy_and_optimize_image raises: the source is a directory, or
\* Image.open or save fails
OptimizeRaises(image, pil_available, decodes) ==
  \/ image \in {<<>>, DotDot}
  \/ pil_available /\ ~decodes

\* one iteration of "Process and optimize images", over the set in any order
OptimizeImage ==
  /\ pc = "optimize"
  /\ \E image \in todo, decodes \in BOOLEAN :
       LET outcome == OptimizeOutcome(image, pil, decodes)
       IN  /\ (~pil \/ image \in {<<>>, DotDot}) => decodes
           /\ processed_images' =
                IF outcome = "none" THEN processed_images
                ELSE Append(processed_images, [name |-> image, data |-> FileData(outcome, image)])
           /\ raised' = IF OptimizeRaises(image, pil, decodes)
                        THEN raised \cup {image} ELSE raised
           /\ todo' = todo \ {image}
           /\ pc' = IF todo' = {} THEN "zip_open" ELSE "optimize"
  /\ UNCHANGED <<err, inputs, fs, work_dir, output_path, json_data, declared, content, idx, asked,
                 chapter_contents, lists, chapter_data, all_referenced_images, zip, docs>>

----------------------------------------------------------------------------
(* main: the Container Writer *)

\* a ZipFile opened with compression=ZIP_DEFLATED
ZipFileCompressionDeflated == "deflated"

\* zipfile.ZipFile(output_path, "w"): compression defaults to ZIP_STORED
ZipFileCompression == "stored"

\* epub.writestr(name, data, compress_type); compress_type "" stands for the
\* omitted argument, which takes the compression of the ZipFile
writestr(members, name, data, compress_type) ==
  Append(members, [name |-> name, data |-> data,
                   compress |-> IF compress_type = "" THEN ZipFileCompression
                                ELSE compress_type])

ZipPositions == {"write_mimetype", "write_container", "write_opf", "write_titlepage",
                 "write_chapters", "write_images", "write_toc", "write_ncx",
                 "write_remaining", "write_css"}

\* with zipfile.ZipFile(output_path, "w") as epub; the path may be unwritable
ZipOpen ==
  /\ pc = "zip_open"
  /\ \E writable \in BOOLEAN :
       IF writable
       THEN /\ archive_path' = output_path
            /\ archive' = <<>>
            /\ pc' = "write_mimetype"
            /\ UNCHANGED err
       ELSE Fail("OSError") /\ UNCHANGED zip
  /\ UNCHANGED <<inputs, fs, work_dir, output_path, json_data, declared, content, idx, asked,
                 chapter_contents, lists, chapter_data, all_referenced_images,
                 processed_images, todo, docs>>
  /\ UNCHANGED raised

\* a write to the archive raises: the exception leaves the with block and main
WriteFails ==
  /\ pc \in ZipPositions
  /\ Fail("OSError")
  /\ UNCHANGED <<inputs, fs, work_dir, output_path, json_data, declared, content, idx, asked,
                 chapter_contents, lists, chapter_data, all_referenced_images,
                 processed_images, todo, zip, docs>>
  /\ UNCHANGED raised

WriteMimetype ==
  /\ pc = "write_mimetype"
  /\ archive' = writestr(archive, MimetypeName, TextData("application/epub+zip"), "")
  /\ pc' = "write_container"
  /\ UNCHANGED <<err, inputs, fs, work_dir, output_path, json_data, declared, content, idx, asked,
                 chapter_contents, lists, chapter_data, all_referenced_images,
                 processed_images, todo, archive_path, docs>>
  /\ UNCHANGED raised

WriteContainer ==
  /\ pc = "write_container"
  /\ archive' = writestr(archive, ContainerName, TextData("OPS/package.opf"), "deflated")
  /\ pc' = "write_opf"
  /\ UNCHANGED <<err, inputs, fs, work_dir, output_path, json_data, declared, content, idx, asked,
                 chapter_contents, lists, chapter_data, all_referenced_images,
                 processed_images, todo, archive_path, docs>>
  /\ UNCHANGED raised

WritePackageOPF ==
  /\ pc = "write_opf"
  /\ opf' = get_packageOPF_XML(all_md_filenames, all_image_filenames,
                               all_css_filenames, json_data)
  /\ archive' = writestr(archive, OpsSlash \o PackageOpf, FileData("opf", <<>>), "deflated")
  /\ pc' = "write_titlepage"
  /\ UNCHANGED <<err, inputs, fs, work_dir, output_path, json_data, declared, content, idx, asked,
                 chapter_contents, lists, chapter_data, all_referenced_images,
                 processed_images, todo, archive_path, toc, ncx>>
  /\ UNCHANGED raised

\* get_coverpage_XML(title, authors)
WriteTitlepage ==
  /\ pc = "write_titlepage"
  /\ archive' = writestr(archive, OpsSlash \o TitlepageXhtml,
                         TextData(json_data.metadata["dc:title"]), "deflated")
  /\ pc' = IF json_data.chapters = <<>>
           THEN (IF processed_images = <<>> THEN "write_toc" ELSE "write_images")
           ELSE "write_chapters"
  /\ idx' = 1
  /\ UNCHANGED <<err, inputs, fs, work_dir, output_path, json_data, declared, content, asked,
                 chapter_contents, lists, chapter_data, all_referenced_images,
                 processed_images, todo, archive_path, docs>>
  /\ UNCHANGED raised

\* one iteration of "Write processed chapters"
WriteChapter ==
  /\ pc = "write_chapters"
  /\ LET chapter == json_data.chapters[idx]
     IN  archive' = writestr(archive,
                             OpsSlash \o ChapterHref(idx - 1, chapter.markdown),
                             chapter_data[chapter.markdown], "deflated")
  /\ IF idx < Len(json_data.chapters)
     THEN pc' = "write_chapters" /\ idx' = idx + 1
     ELSE /\ idx' = 1
          /\ pc' = IF processed_images = <<>> THEN "write_toc" ELSE "write_images"
  /\ UNCHANGED <<err, inputs, fs, work_dir, output_path, json_data, declared, content, asked,
                 chapter_contents, lists, chapter_data, all_referenced_images,
                 processed_images, todo, archive_path, docs>>
  /\ UNCHANGED raised

\* one iteration of "Write processed images"
WriteProcessedImage ==
  /\ pc = "write_images"
  /\ archive' = writestr(archive, OpsSlash \o ImagesSlash \o processed_images[idx].name,
                         processed_images[idx].data, "deflated")
  /\ IF idx < Len(processed_images)
     THEN pc' = "write_images" /\ idx' = idx + 1
     ELSE pc' = "write_toc" /\ idx' = 1
  /\ UNCHANGED <<err, inputs, fs, work_dir, output_path, json_data, declared, content, asked,
                 chapter_contents, lists, chapter_data, all_referenced_images,
                 processed_images, todo, archive_path, docs>>
  /\ UNCHANGED raised

WriteTOC ==
  /\ pc = "write_toc"
  /\ toc' = get_TOC_XML(json_data.default_css, all_md_filenames)
  /\ archive' = writestr(archive, OpsSlash \o TocXhtml, FileData("toc", <<>>), "deflated")
  /\ pc' = "write_ncx"
  /\ UNCHANGED <<err, inputs, fs, work_dir, output_path, json_data, declared, content, idx, asked,
                 chapter_contents, lists, chapter_data, all_referenced_images,
                 processed_images, todo, archive_path, opf, ncx>>
  /\ UNCHANGED raised

\* where main goes once the remaining images are written
AfterRemaining ==
  IF fs.css_dir /\ all_css_filenames # <<>> THEN "write_css" ELSE "done"

WriteNCX ==
  /\ pc = "write_ncx"
  /\ ncx' = get_TOCNCX_XML(all_md_filenames)
  /\ archive' = writestr(archive, OpsSlash \o TocNcx, FileData("ncx", <<>>), "deflated")
  /\ LET remaining_images == Range(all_image_filenames) \
                             {processed_images[k].name : k \in 1..Len(processed_images)}
     IN  /\ todo' = remaining_images
         /\ pc' = IF remaining_images # {} /\ fs.images_dir
                  THEN "write_remaining" ELSE AfterRemaining
  /\ idx' = 1
  /\ UNCHANGED <<err, inputs, fs, work_dir, output_path, json_data, declared, content, asked,
                 chapter_contents, lists, chapter_data, all_referenced_images,
                 processed_images, archive_path, opf, toc>>
  /\ UNCHANGED raised

\* one iteration of "Copy remaining images", over the set in any order; the
\* open of the source file is not guarded
WriteRemainingImage ==
  /\ pc = "write_remaining"
  /\ \E image \in todo, readable \in BOOLEAN :
       IF readable
       THEN /\ archive' = writestr(archive, OpsSlash \o ImagesSlash \o image,
                                   FileData("copy", image), "deflated")
            /\ todo' = todo \ {image}
            /\ pc' = IF todo' = {} THEN AfterRemaining ELSE "write_remaining"
            /\ UNCHANGED err
       ELSE Fail("OSError: open image") /\ UNCHANGED <<archive, todo>>
  /\ UNCHANGED <<inputs, fs, work_dir, output_path, json_data, declared, content, idx, asked,
                 chapter_contents, lists, chapter_data, all_referenced_images,
                 processed_images, archive_path, docs>>
  /\ UNCHANGED raised

\* one iteration of "Copy CSS files": a file that css/ lacks is passed over
WriteCss ==
  /\ pc = "write_css"
  /\ LET css == all_css_filenames[idx]
     IN  archive' = IF css \in fs.css
                    THEN writestr(archive, OpsSlash \o CssSlash \o css,
                                  FileData("css", css), "deflated")
                    ELSE archive
  /\ IF idx < Len(all_css_filenames)
     THEN pc' = "write_css" /\ idx' = idx + 1
     ELSE pc' = "done" /\ idx' = 1
  /\ UNCHANGED <<err, inputs, fs, work_dir, output_path, json_data, declared, content, asked,
                 chapter_contents, lists, chapter_data, all_referenced_images,
                 processed_images, todo, archive_path, docs>>
  /\ UNCHANGED raised

----------------------------------------------------------------------------
(* main of src/modules/mark2epub.py: no metadata prompts and no review, the *)
(* chapters and the images are processed while the archive is open         *)

\* the descriptor that main synthesises when description.json is missing
ModulesDefaultMetadata ==
  [key \in FieldSet |->
     CASE key = "dc:title"      -> "book"
       [] key = "dc:creator"    -> "Unknown Author"
       [] key = "dc:identifier" -> "id-1"
       [] key = "dc:language"   -> "en"
       [] key = "dc:rights"     -> "All rights reserved"
       [] key = "dc:publisher"  -> "PDF2EPUB"
       [] key = "dc:date"       -> ""]

ModulesUnchanged ==
  UNCHANGED <<inputs, work_dir, output_path, content, asked, chapter_contents,
              processed_images>>

\* read description.json, or synthesise and save it
ModulesLoad ==
  /\ pc = "m_load"
  /\ IF ~fs.dir_exists
     THEN Fail("FileNotFoundError: os.listdir") /\ UNCHANGED <<fs, json_data, declared>>
     ELSE IF fs.has_desc
     THEN /\ json_data' = [metadata |-> fs.desc.metadata,
                           default_css |-> fs.desc.default_css,
                           chapters |-> fs.desc.chapters,
                           cover_image |-> fs.desc.cover_image]
          /\ declared' = TRUE
          /\ pc' = IF fs.desc.has_css THEN "m_cover" ELSE "failed"
          /\ err' = IF fs.desc.has_css THEN "" ELSE "KeyError: default_css"
          /\ UNCHANGED fs
     ELSE LET data == [metadata |-> ModulesDefaultMetadata,
                       default_css |-> <<StyleCss>>,
                       chapters |-> ScannedChapters(fs.files),
                       cover_image |-> <<>>]
          IN  /\ json_data' = data
              /\ declared' = FALSE
              /\ fs' = [fs EXCEPT !.has_desc = TRUE,
                                  !.desc = Descriptor(data.metadata, TRUE, data.default_css,
                                                      data.chapters, data.cover_image)]
              /\ pc' = "m_cover"
              /\ UNCHANGED err
  /\ ModulesUnchanged
  /\ UNCHANGED <<idx, lists, chapter_data, all_referenced_images, todo, zip, docs>>
  /\ UNCHANGED raised

\* get_coverpage_XML(title) prompts for the authors, then "Compile list of
\* files" and get_all_filenames, whose os.listdir raises without images/
ModulesCompile ==
  /\ pc = "m_cover"
  /\ IF ~fs.images_dir
     THEN Fail("FileNotFoundError: os.listdir") /\ UNCHANGED lists
     ELSE /\ all_md_filenames' = CompileMd(json_data.chapters, 1, <<>>)
          /\ all_css_filenames' = CompileCss(json_data.chapters, 1, json_data.default_css)
          /\ all_image_filenames' = get_all_filenames(fs.images, ImageExtensions)
          /\ pc' = "m_zip_open"
          /\ UNCHANGED err
  /\ ModulesUnchanged
  /\ UNCHANGED <<fs, json_data, declared, idx, chapter_data, all_referenced_images,
                 todo, zip, docs>>
  /\ UNCHANGED raised

\* with zipfile.ZipFile(output_path, "w") as epub, then mimetype,
\* container.xml, package.opf and the title page
ModulesZipOpen ==
  /\ pc = "m_zip_open"
  /\ \E writable \in BOOLEAN :
       IF writable
       THEN /\ archive_path' = output_path
            /\ archive' = <<>>
            /\ pc' = "m_write_mimetype"
            /\ UNCHANGED err
       ELSE Fail("OSError") /\ UNCHANGED zip
  /\ ModulesUnchanged
  /\ UNCHANGED <<fs, json_data, declared, idx, lists, chapter_data,
                 all_referenced_images, todo, docs>>
  /\ UNCHANGED raised

ModulesWriteMimetype ==
  /\ pc = "m_write_mimetype"
  /\ archive' = writestr(archive, MimetypeName, TextData("application/epub+zip"), "")
  /\ pc' = "m_write_package"
  /\ ModulesUnchanged
  /\ UNCHANGED <<err, fs, json_data, declared, idx, lists, chapter_data,
                 all_referenced_images, todo, archive_path, docs>>
  /\ UNCHANGED raised

\* where the chapter loop of the modules builder leaves to
ModulesAfterChapters(referenced) ==
  IF fs.images_dir /\ referenced # {} THEN "m_write_images" ELSE "m_write_toc"

ModulesWritePackage ==
  /\ pc = "m_write_package"
  /\ opf' = get_packageOPF_XML(all_md_filenames, all_image_filenames,
                               all_css_filenames, json_data)
  /\ archive' =
       writestr(writestr(writestr(archive,
                  ContainerName, TextData("OPS/package.opf"), "deflated"),
                  OpsSlash \o PackageOpf, FileData("opf", <<>>), "deflated"),
                  OpsSlash \o TitlepageXhtml,
                  TextData(IF "dc:title" \in DOMAIN json_data.metadata
                           THEN json_data.metadata["dc:title"] ELSE "Untitled Document"),
                  "deflated")
  /\ pc' = IF json_data.chapters = <<>> THEN "m_write_toc" ELSE "m_write_chapters"
  /\ idx' = 1
  /\ ModulesUnchanged
  /\ UNCHANGED <<err, fs, json_data, declared, lists, chapter_data,
                 all_referenced_images, todo, archive_path, toc, ncx>>
  /\ UNCHANGED raised

\* one iteration of "Write chapters": the file is read, rendered and written
ModulesWriteChapter ==
  /\ pc = "m_write_chapters"
  /\ LET chapter == json_data.chapters[idx]
         css_files == ChapterCssFiles(json_data.default_css, chapter)
         r == get_chapter_XML(work_dir, css_files, fs.text[chapter.markdown],
                              fs.images_dir, fs.images)
         referenced == all_referenced_images \cup Range(r.images)
     IN  IF chapter.markdown \notin fs.files
         THEN Fail("FileNotFoundError: open")
              /\ UNCHANGED <<archive, all_referenced_images, idx, todo>>
         ELSE IF ~r.ok
         THEN Fail("ValueError: relative_to")
              /\ UNCHANGED <<archive, all_referenced_images, idx, todo>>
         ELSE /\ all_referenced_images' = referenced
              /\ archive' = writestr(archive,
                                     OpsSlash \o ChapterHref(idx - 1, chapter.markdown),
                                     r.xhtml, "deflated")
              /\ IF idx < Len(json_data.chapters)
                 THEN pc' = "m_write_chapters" /\ idx' = idx + 1 /\ UNCHANGED todo
                 ELSE /\ idx' = 1
                      /\ todo' = referenced
                      /\ pc' = ModulesAfterChapters(referenced)
              /\ UNCHANGED err
  /\ ModulesUnchanged
  /\ UNCHANGED <<fs, json_data, declared, lists, chapter_data, archive_path, docs>>
  /\ UNCHANGED raised

\* one iteration of "Process and copy images", over the set in any order
ModulesWriteImage ==
  /\ pc = "m_write_images"
  /\ \E image \in todo, decodes \in BOOLEAN :
       LET outcome == OptimizeOutcome(image, TRUE, decodes)
       IN  /\ image \in {<<>>, DotDot} => decodes
           /\ archive' = IF outcome = "none" THEN archive
                         ELSE writestr(archive, OpsSlash \o ImagesSlash \o image,
                                       FileData(outcome, image), "deflated")
           /\ raised' = IF OptimizeRaises(image, TRUE, decodes)
                        THEN raised \cup {image} ELSE raised
           /\ todo' = todo \ {image}
           /\ pc' = IF todo' = {} THEN "m_write_toc" ELSE "m_write_images"
  /\ ModulesUnchanged
  /\ UNCHANGED <<err, fs, json_data, declared, idx, lists, chapter_data,
                 all_referenced_images, archive_path, docs>>

\* where the modules builder goes once the images are copied
ModulesAfterImages ==
  IF fs.css_dir /\ all_css_filenames # <<>> THEN "m_write_css" ELSE "done"

\* TOC.xhtml and toc.ncx
ModulesWriteTOC ==
  /\ pc = "m_write_toc"
  /\ toc' = get_TOC_XML(json_data.default_css, all_md_filenames)
  /\ ncx' = get_TOCNCX_XML(all_md_filenames)
  /\ archive' = writestr(writestr(archive,
                  OpsSlash \o TocXhtml, FileData("toc", <<>>), "deflated"),
                  OpsSlash \o TocNcx, FileData("ncx", <<>>), "deflated")
  /\ pc' = IF fs.images_dir /\ all_image_filenames # <<>>
           THEN "m_copy_images" ELSE ModulesAfterImages
  /\ idx' = 1
  /\ ModulesUnchanged
  /\ UNCHANGED <<err, fs, json_data, declared, lists, chapter_data,
                 all_referenced_images, todo, archive_path, opf>>
  /\ UNCHANGED raised

\* one iteration of "Copy images": every listed image, referenced or not
ModulesCopyImage ==
  /\ pc = "m_copy_images"
  /\ \E readable \in BOOLEAN :
       IF readable
       THEN /\ archive' = writestr(archive,
                                   OpsSlash \o ImagesSlash \o all_image_filenames[idx],
                                   FileData("copy", all_image_filenames[idx]), "deflated")
            /\ IF idx < Len(all_image_filenames)
               THEN pc' = "m_copy_images" /\ idx' = idx + 1
               ELSE pc' = ModulesAfterImages /\ idx' = 1
            /\ UNCHANGED err
       ELSE Fail("OSError: open image") /\ UNCHANGED <<archive, idx>>
  /\ ModulesUnchanged
  /\ UNCHANGED <<fs, json_data, declared, lists, chapter_data,
                 all_referenced_images, todo, archive_path, docs>>
  /\ UNCHANGED raised

\* one iteration of "Copy CSS files": the built-in stylesheet stands in for
\* a file that css/ lacks
ModulesWriteCss ==
  /\ pc = "m_write_css"
  /\ LET css == all_css_filenames[idx]
     IN  archive' = writestr(archive, OpsSlash \o CssSlash \o css,
                             FileData(IF css \in fs.css THEN "css" ELSE "default_css", css),
                             "deflated")
  /\ IF idx < Len(all_css_filenames)
     THEN pc' = "m_write_css" /\ idx' = idx + 1
     ELSE pc' = "done" /\ idx' = 1
  /\ ModulesUnchanged
  /\ UNCHANGED <<err, fs, json_data, declared, lists, chapter_data,
                 all_referenced_images, todo, archive_path, docs>>
  /\ UNCHANGED raised

\* a write to the archive of the modules builder raises
ModulesWriteFails ==
  /\ pc \in {"m_write_mimetype", "m_write_package", "m_write_chapters",
             "m_write_images", "m_write_toc", "m_copy_images", "m_write_css"}
  /\ Fail("OSError")
  /\ ModulesUnchanged
  /\ UNCHANGED <<fs, json_data, declared, idx, lists, chapter_data,
                 all_referenced_images, todo, zip, docs>>
  /\ UNCHANGED raised

\* the same caller builds the unchanged directory again, later, and the
\* user presses Enter at every metadata prompt; only a directory that had no
\* description.json before the first build is built twice
Rerun ==
  /\ run = 1
  /\ first.fresh
  /\ fs.has_desc
  /\ pc \in {"done", "failed"}
  /\ run' = 2
  /\ first' = [first EXCEPT !.desc = fs.desc, !.built = (opf # NoOPF),
                            !.manifest = opf.manifest, !.spine = opf.spine]
  /\ replies' = NoReplies
  /\ now' = now + 1
  /\ pc' = "start"
  /\ err' = ""
  /\ work_dir' = <<>>
  /\ output_path' = <<>>
  /\ json_data' = NoJson
  /\ declared' = FALSE
  /\ content' = <<>>
  /\ idx' = 0
  /\ asked' = 0
  /\ chapter_contents' = <<>>
  /\ all_md_filenames' = <<>>
  /\ all_css_filenames' = <<>>
  /\ all_image_filenames' = <<>>
  /\ chapter_data' = <<>>
  /\ all_referenced_images' = {}
  /\ processed_images' = <<>>
  /\ todo' = {}
  /\ raised' = {}
  /\ archive_path' = <<>>
  /\ archive' = <<>>
  /\ opf' = NoOPF
  /\ toc' = NoTOC
  /\ ncx' = <<>>
  /\ UNCHANGED <<builder, entry, markdown_dir, output_arg, pil, fs, image_call, ai, cli>>

Next ==
  \/ ConvertToEpub
  \/ CallMain
  \/ GetMetadata
  \/ ReviewRead
  \/ ReviewAsk
  \/ ReviewEdit
  \/ ReviewAgain
  \/ CompileLists
  \/ RenderChapter
  \/ OptimizeImage
  \/ ZipOpen
  \/ WriteFails
  \/ WriteMimetype
  \/ WriteContainer
  \/ WritePackageOPF
  \/ WriteTitlepage
  \/ WriteChapter
  \/ WriteProcessedImage
  \/ WriteTOC
  \/ WriteNCX
  \/ WriteRemainingImage
  \/ WriteCss
  \/ ModulesLoad
  \/ ModulesCompile
  \/ ModulesZipOpen
  \/ ModulesWriteMimetype
  \/ ModulesWritePackage
  \/ ModulesWriteChapter
  \/ ModulesWriteImage
  \/ ModulesWriteTOC
  \/ ModulesCopyImage
  \/ ModulesWriteCss
  \/ ModulesWriteFails
  \/ Rerun

Spec == Init /\ [][Next]_vars

\* main is one sequential process: the interpreter always executes the next
\* statement, and every prompt is answered
SpecTermination == Init /\ [][Next]_vars /\ WF_vars(Next)

----------------------------------------------------------------------------
(* copy_and_optimize_image on its own: any source size and max_dimension, *)
(* with and without Pillow                                                *)

InitImageCall ==
  /\ InitLocals
  /\ builder = "pdf2epub"
  /\ entry = "main"
  /\ markdown_dir = BookDir
  /\ output_arg = <<Out, Book \o DotEpub>>
  /\ pil = TRUE
  /\ replies = NoReplies
  /\ now = 1
  /\ fs = BaseFS
  /\ run = 1
  /\ first = NoFirst(fs)
  /\ \E pil_available \in BOOLEAN, w \in 1..MaxSide, h \in 1..MaxSide,
        max_dimension \in 1..MaxDimension :
       image_call = ImageCall(pil_available, <<w, h>>, max_dimension, "source", <<0, 0>>)
  /\ ai = NoAI
  /\ cli = NoCli

ImageUnchanged ==
  UNCHANGED <<pc, err, builder, entry, markdown_dir, output_arg, pil, replies, now, run,
              first, ai, cli, fs, work_dir, output_path, json_data, declared, content, idx,
              asked, chapter_contents, lists, chapter_data, all_referenced_images,
              processed_images, todo, raised, zip, docs>>

\* if not PIL_AVAILABLE: shutil.copy2(src_path, dest_path)
CopyWithoutPillow ==
  /\ image_call.at = "source"
  /\ ~image_call.pil_available
  /\ image_call' = [image_call EXCEPT !.at = "saved", !.saved_size = image_call.size]
  /\ ImageUnchanged

\* Image.open(src_path), which raises on a file it cannot decode
OpenImage ==
  /\ image_call.at = "source"
  /\ image_call.pil_available
  /\ \E decodes \in BOOLEAN :
       image_call' = [image_call EXCEPT !.at = IF decodes THEN "opened" ELSE "raised"]
  /\ ImageUnchanged

\* ratio, new_size, img.resize when ratio < 1.0, img.save; resize raises
\* ValueError for a size with a zero side
ResizeAndSave ==
  /\ image_call.at = "opened"
  /\ LET size == image_call.size
         longest == LongestSide(size)
         max_dimension == image_call.max_dimension
     IN  IF RatioBelowOne(max_dimension, longest)
         THEN \E lost_w \in BOOLEAN, lost_h \in BOOLEAN :
                /\ lost_w => MayLose(size[1], max_dimension, longest)
                /\ lost_h => MayLose(size[2], max_dimension, longest)
                /\ LET new_size == <<ScaledDim(size[1], max_dimension, longest, lost_w),
                                     ScaledDim(size[2], max_dimension, longest, lost_h)>>
                   IN  image_call' = IF new_size[1] < 1 \/ new_size[2] < 1
                                THEN [image_call EXCEPT !.at = "raised"]
                                ELSE [image_call EXCEPT !.at = "saved", !.saved_size = new_size]
         ELSE image_call' = [image_call EXCEPT !.at = "saved", !.saved_size = size]
  /\ ImageUnchanged

NextImageCall ==
  \/ CopyWithoutPillow
  \/ OpenImage
  \/ ResizeAndSave

SpecImageCall == InitImageCall /\ [][NextImageCall]_vars

----------------------------------------------------------------------------
(* AIPostprocessor.run_postprocessing on its own: any provider, prompt,   *)
(* markdown sample and pair of analysis responses                         *)

\* the providers a caller can name
Providers == {"anthropic", "openai"}

\* the texts getjsonparams can return
ResponseTexts ==
  {"invalid json {", "{\"patterns\": 1}", "{\"improvements\": 2}", "{\"patterns\": 3}", "[1]"}

\* getjsonparams raises (no package, no API key, a failed request) or
\* returns a text
Responses ==
  {[raises |-> TRUE, text |-> ""]} \cup {[raises |-> FALSE, text |-> t] : t \in ResponseTexts}

JsonDict(items) == [kind |-> "dict", items |-> items]
JsonList(items) == [kind |-> "list", items |-> items]

\* a json.loads that takes any text for an empty object
JsonLoads_Lenient(text) ==
  CASE text = "{\"patterns\": 1}"     -> [ok |-> TRUE, value |-> JsonDict("patterns" :> 1)]
    [] text = "{\"improvements\": 2}" -> [ok |-> TRUE, value |-> JsonDict("improvements" :> 2)]
    [] text = "{\"patterns\": 3}"     -> [ok |-> TRUE, value |-> JsonDict("patterns" :> 3)]
    [] text = "[1]"                   -> [ok |-> TRUE, value |-> JsonList(<<1>>)]
    [] OTHER                          -> [ok |-> TRUE, value |-> JsonDict(<<>>)]

\* json.loads: the value of a JSON text, or JSONDecodeError
JsonLoads(text) ==
  CASE text = "{\"patterns\": 1}"     -> [ok |-> TRUE, value |-> JsonDict("patterns" :> 1)]
    [] text = "{\"improvements\": 2}" -> [ok |-> TRUE, value |-> JsonDict("improvements" :> 2)]
    [] text = "{\"patterns\": 3}"     -> [ok |-> TRUE, value |-> JsonDict("patterns" :> 3)]
    [] text = "[1]"                   -> [ok |-> TRUE, value |-> JsonList(<<1>>)]
    [] OTHER                          -> [ok |-> FALSE, value |-> JsonDict(<<>>)]

\* combined_json.update(current_json): the keys of current_json win; a
\* combined_json that is no dict has no update, and a list of numbers is no
\* sequence of pairs
DictUpdate(combined_json, current_json) ==
  IF combined_json.kind # "dict" THEN [error |-> "AttributeError", value |-> combined_json]
  ELSE IF current_json.kind # "dict" THEN [error |-> "TypeError", value |-> combined_json]
  ELSE [error |-> "", value |-> JsonDict(current_json.items @@ combined_json.items)]

\* patterns.json in the working directory
NoPatterns  == [exists |-> FALSE, data |-> JsonDict(<<>>)]
OldPatterns == [exists |-> TRUE, data |-> JsonDict("old" :> 0)]

InitAI ==
  /\ InitLocals
  /\ builder = "pdf2epub"
  /\ entry = "main"
  /\ markdown_dir = BookDir
  /\ output_arg = <<Out, Book \o DotEpub>>
  /\ pil = TRUE
  /\ replies = NoReplies
  /\ now = 1
  /\ fs = BaseFS
  /\ run = 1
  /\ first = NoFirst(fs)
  /\ image_call = NoImageCall
  /\ cli = NoCli
  /\ \E ai_provider \in Providers, prompt_ok \in BOOLEAN,
        sample \in {"ok", "missing", "empty"},
        first_response \in Responses, second_response \in Responses,
        before \in {NoPatterns, OldPatterns} :
       ai = [at |-> "call", ai_provider |-> ai_provider, prompt_ok |-> prompt_ok,
             sample |-> sample, responses |-> <<first_response, second_response>>,
             i |-> 0, parsed |-> 0, combined_json |-> JsonDict(<<>>),
             before |-> before, patterns |-> before, process_markdown |-> 0,
             error |-> ""]

AIUnchanged ==
  UNCHANGED <<pc, err, builder, entry, markdown_dir, output_arg, pil, replies, now, run,
              first, image_call, cli, fs, work_dir, output_path, json_data, declared,
              content, idx, asked, chapter_contents, lists, chapter_data,
              all_referenced_images, processed_images, todo, raised, zip, docs>>

AIRaise(error) == ai' = [ai EXCEPT !.at = "raised", !.error = error]

\* if ai_provider != "anthropic": raise ValueError
AICheckProvider ==
  /\ ai.at = "call"
  /\ IF ai.ai_provider # "anthropic"
     THEN AIRaise("ValueError")
     ELSE ai' = [ai EXCEPT !.at = "prompt"]
  /\ AIUnchanged

\* _get_system_prompt: RuntimeError when prompt.txt is missing or empty
AIGetSystemPrompt ==
  /\ ai.at = "prompt"
  /\ IF ai.prompt_ok
     THEN ai' = [ai EXCEPT !.at = "sample"]
     ELSE AIRaise("RuntimeError")
  /\ AIUnchanged

\* _get_markdown_sample: RuntimeError when the file is missing or empty
AIGetMarkdownSample ==
  /\ ai.at = "sample"
  /\ IF ai.sample = "ok"
     THEN ai' = [ai EXCEPT !.at = "analysis"]
     ELSE AIRaise("RuntimeError")
  /\ AIUnchanged

\* one iteration of `for i in range(2)`: the request, json.loads, and the
\* assignment or update of combined_json; every exception is logged and
\* raised again
AIAnalyze ==
  /\ ai.at = "analysis"
  /\ LET response == ai.responses[ai.i + 1]
         loaded == JsonLoads(response.text)
         updated == DictUpdate(ai.combined_json, loaded.value)
     IN  IF response.raises THEN AIRaise("Exception: getjsonparams")
         ELSE IF ~loaded.ok THEN AIRaise("JSONDecodeError")
         ELSE IF ai.i = 0
         THEN ai' = [ai EXCEPT !.i = 1, !.parsed = 1, !.combined_json = loaded.value]
         ELSE IF updated.error # ""
         THEN ai' = [ai EXCEPT !.at = "raised", !.error = updated.error, !.parsed = 2]
         ELSE ai' = [ai EXCEPT !.at = "write", !.i = 2, !.parsed = 2,
                               !.combined_json = updated.value]
  /\ AIUnchanged

\* with open(self.json_path, 'w'): json.dump(combined_json, f, indent=4)
AIWritePatterns ==
  /\ ai.at = "write"
  /\ ai' = [ai EXCEPT !.at = "process",
                      !.patterns = [exists |-> TRUE, data |-> ai.combined_json]]
  /\ AIUnchanged

\* process_markdown(self.work_dir, self.json_path), which returns or raises
AIProcessMarkdown ==
  /\ ai.at = "process"
  /\ \E returns \in BOOLEAN :
       ai' = [ai EXCEPT !.at = IF returns THEN "returned" ELSE "raised",
                        !.error = IF returns THEN "" ELSE "Exception: process_markdown",
                        !.process_markdown = 1]
  /\ AIUnchanged

NextAI ==
  \/ AICheckProvider
  \/ AIGetSystemPrompt
  \/ AIGetMarkdownSample
  \/ AIAnalyze
  \/ AIWritePatterns
  \/ AIProcessMarkdown

SpecAI == InitAI /\ [][NextAI]_vars

----------------------------------------------------------------------------
(* cli.main: the queue of PDFs and the three stages of each               *)

MaxQueue == 3

\* the state of cli.main at the head of its loop over the queue
CliRun(queue, skip_md, skip_ai, skip_epub) ==
  [at |-> "loop", queue |-> queue, k |-> 0, skip_md |-> skip_md, skip_ai |-> skip_ai,
   skip_epub |-> skip_epub, log |-> <<>>]

\* a stage of the PDF at position k of the queue that was started, and how
\* it ended
Stage(k, stage, ok) == [pdf |-> k, stage |-> stage, ok |-> ok]

\* add_pdfs_to_queue returns at least one PDF or exits
InitCli ==
  /\ InitLocals
  /\ builder = "pdf2epub"
  /\ entry = "main"
  /\ markdown_dir = BookDir
  /\ output_arg = <<Out, Book \o DotEpub>>
  /\ pil = TRUE
  /\ replies = NoReplies
  /\ now = 1
  /\ fs = BaseFS
  /\ run = 1
  /\ first = NoFirst(fs)
  /\ image_call = NoImageCall
  /\ ai = NoAI
  /\ \E n \in 1..MaxQueue, skip_md \in BOOLEAN, skip_ai \in BOOLEAN, skip_epub \in BOOLEAN :
       cli = CliRun([k \in 1..n |-> k], skip_md, skip_ai, skip_epub)

CliUnchanged ==
  UNCHANGED <<pc, err, builder, entry, markdown_dir, output_arg, pil, replies, now, run,
              first, image_call, ai, fs, work_dir, output_path, json_data, declared,
              content, idx, asked, chapter_contents, lists, chapter_data,
              all_referenced_images, processed_images, todo, raised, zip, docs>>

\* `for pdf_path in queue`, and `continue`
CliNextPdf ==
  /\ cli.at = "loop"
  /\ cli' = IF cli.k < Len(cli.queue)
            THEN [cli EXCEPT !.at = "markdown", !.k = cli.k + 1]
            ELSE [cli EXCEPT !.at = "returned"]
  /\ CliUnchanged

\* the Markdown stage: with --skip-md the directory must exist, else
\* `continue`; without it convert_pdf runs, which on any exception prints
\* the error and calls sys.exit(1); SystemExit is no Exception, so the
\* `except Exception` of cli.main does not catch it
CliMarkdown ==
  /\ cli.at = "markdown"
  /\ \E works \in BOOLEAN :
       cli' = IF cli.skip_md
              THEN [cli EXCEPT !.at = IF works THEN "ai" ELSE "loop"]
              ELSE [cli EXCEPT !.at = IF works THEN "ai" ELSE "exited",
                               !.log = Append(cli.log, Stage(cli.k, "markdown", works))]
  /\ CliUnchanged

\* the AI stage: run_postprocessing when the markdown file exists; every
\* exception is logged and the run goes on with the original markdown
CliPostprocess ==
  /\ cli.at = "ai"
  /\ \E markdown_file_exists \in BOOLEAN, works \in BOOLEAN :
       /\ ~markdown_file_exists => works
       /\ cli' = IF cli.skip_ai \/ ~markdown_file_exists
                 THEN [cli EXCEPT !.at = "epub"]
                 ELSE [cli EXCEPT !.at = "epub",
                                  !.log = Append(cli.log, Stage(cli.k, "ai", works))]
  /\ CliUnchanged

\* the EPUB stage: convert_to_epub; an exception is logged by the outer
\* handler, which goes on with the next PDF
CliEpub ==
  /\ cli.at = "epub"
  /\ \E works \in BOOLEAN :
       cli' = IF cli.skip_epub
              THEN [cli EXCEPT !.at = "loop"]
              ELSE [cli EXCEPT !.at = "loop",
                               !.log = Append(cli.log, Stage(cli.k, "epub", works))]
  /\ CliUnchanged

NextCli ==
  \/ CliNextPdf
  \/ CliMarkdown
  \/ CliPostprocess
  \/ CliEpub

SpecCli == InitCli /\ [][NextCli]_vars

----------------------------------------------------------------------------
(* Properties *)

\* the names of the archive members
MemberNames == {archive[k].name : k \in 1..Len(archive)}

\* the href of the manifest item that an idref resolves to
ResolveHref(doc, idref) ==
  LET k == CHOOSE j \in 1..Len(doc.manifest) : doc.manifest[j].id = idref
  IN  doc.manifest[k].href

\* the spine itemrefs that follow titlepage, as (id, href) pairs
SpineChapters(doc) ==
  [i \in 1..(Len(doc.spine) - 1) |->
     [id |-> doc.spine[i + 1].idref, href |-> ResolveHref(doc, doc.spine[i + 1].idref)]]

\* the s%05d prefix of a chapter href
HrefId(href) == SubSeq(href, 1, 6)

AllDocumentsWritten ==
  /\ OpsSlash \o PackageOpf \in MemberNames
  /\ OpsSlash \o TocXhtml \in MemberNames
  /\ OpsSlash \o TocNcx \in MemberNames

\* C1: once package.opf, TOC.xhtml and toc.ncx are written, the spine
\* itemrefs after titlepage (resolved through the manifest), the links of the
\* nav list and the content srcs of the navPoints give the same sequence of
\* chapter hrefs, each under the id that its href starts with.
C1_ChapterSequencesAgree ==
  AllDocumentsWritten =>
    LET spine == SpineChapters(opf)
    IN  /\ Len(spine) = Len(toc.links)
        /\ Len(spine) = Len(ncx)
        /\ \A i \in 1..Len(spine) :
             /\ spine[i].href = toc.links[i].href
             /\ spine[i].href = ncx[i].src
             /\ spine[i].id = HrefId(toc.links[i].href)
             /\ spine[i].id = HrefId(ncx[i].src)

\* C1 witness: a finished build whose three documents list two chapters
C1_Witness ==
  /\ pc = "done"
  /\ AllDocumentsWritten
  /\ Len(opf.spine) = 3
  /\ Len(toc.links) = 2
  /\ Len(ncx) = 2

\* C2: whenever the archive has a member, the first one is named mimetype,
\* is stored without compression and holds exactly application/epub+zip,
\* in both builders and also when a later write failed.
C2_MimetypeFirst ==
  archive # <<>> =>
    /\ archive[1].name = MimetypeName
    /\ archive[1].compress = "stored"
    /\ archive[1].data = TextData("application/epub+zip")

\* C2 witness: a run of the modules builder that failed after it had
\* written members behind mimetype
C2_Witness ==
  /\ pc = "failed"
  /\ builder = "modules"
  /\ Len(archive) > 4

\* C3 (as claimed): when description.json declares the chapters, the spine
\* is titlepage followed by s00000, s00001, ..., all linear, and the item
\* of the id at position i is the file of the i-th declared chapter.
C3_SpineFollowsDeclaration ==
  (builder = "pdf2epub" /\ opf # NoOPF /\ declared) =>
    /\ opf.spine[1] = [idref |-> TitlepageId, linear |-> "yes"]
    /\ \A i \in 1..(Len(opf.spine) - 1) :
         /\ opf.spine[i + 1] = [idref |-> ChapterId(i - 1), linear |-> "yes"]
         /\ i <= Len(json_data.chapters)
         /\ ResolveHref(opf, ChapterId(i - 1)) =
              ChapterHref(i - 1, json_data.chapters[i].markdown)

\* the chapter items of the manifest
ChapterItems(doc) ==
  {doc.manifest[k] : k \in {j \in 1..Len(doc.manifest) :
      /\ doc.manifest[j].media_type = "application/xhtml+xml"
      /\ doc.manifest[j].id \notin {TocId, TitlepageId}}}

\* the text of a chapter file as main renders it
RenderedBody(md) ==
  process_markdown_for_images(chapter_contents[md], work_dir,
                              fs.images_dir, fs.images).text

\* C4 (as claimed): after a successful build every chapter item of the
\* manifest has its member OPS/<href> holding the XHTML of that chapter,
\* and every chapter member of the archive has a manifest item.
C4_ChapterMembersMatchManifest ==
  (builder = "pdf2epub" /\ pc = "done") =>
    /\ \A i \in 1..Len(all_md_filenames) :
         \E k \in 1..Len(archive) :
           /\ archive[k].name = OpsSlash \o ChapterHref(i - 1, all_md_filenames[i])
           /\ archive[k].data.kind = "xhtml"
           /\ archive[k].data.body = RenderedBody(all_md_filenames[i])
    /\ \A k \in 1..Len(archive) :
         archive[k].data.kind = "xhtml" =>
           \E item \in ChapterItems(opf) : archive[k].name = OpsSlash \o item.href

\* C5 (as claimed): no two manifest items share an id or an href.
C5_ManifestIdsAndHrefsUnique ==
  builder = "pdf2epub" =>
  \A i, j \in 1..Len(opf.manifest) :
    i # j => /\ opf.manifest[i].id # opf.manifest[j].id
             /\ opf.manifest[i].href # opf.manifest[j].href

\* C6 (as claimed): the archive of convert_to_epub(markdown_dir, output_path)
\* is at output_path.
C6_ArchiveAtOutputPath ==
  (entry = "convert_to_epub" /\ pc = "done") => archive_path = output_arg

\* whether a name is a file of images/
IsImageFile(name) == fs.images_dir /\ InList(name, fs.images)

\* the chapters that the first pass has rendered so far
RenderedChapters ==
  IF pc = "render" THEN 1..(idx - 1)
  ELSE IF pc \in {"optimize", "zip_open", "done"} \cup ZipPositions
  THEN 1..Len(json_data.chapters)
  ELSE {}

\* C7 (as claimed): no image reference aborts the rendering, and a
\* reference whose filename images/ lacks is left as it is and its
\* filename is not recorded.
C7_MissingImageLeftAlone ==
  builder = "pdf2epub" =>
    /\ err # "ValueError: relative_to"
    /\ \A c \in RenderedChapters :
         LET md == json_data.chapters[c].markdown
             text == chapter_contents[md]
         IN  \A k \in 1..Len(text) :
               ~IsImageFile(PathName(text[k].path)) =>
                 /\ chapter_data[md].body[k] = text[k]
                 /\ PathName(text[k].path) \notin all_referenced_images

\* C8 (as claimed): process_markdown_for_images rewrites every reference
\* whose filename is in images/ and records the filename, returns a text
\* without references unchanged with an empty list, and records only
\* files of images/.
C8_ExistingImagesRewritten ==
  pc = "render" =>
    LET text == chapter_contents[json_data.chapters[idx].markdown]
        r == process_markdown_for_images(text, work_dir, fs.images_dir, fs.images)
    IN  /\ \A k \in 1..Len(text) :
             IsImageFile(PathName(text[k].path)) =>
               /\ r.ok
               /\ r.text[k] = NewRef(text[k])
               /\ InList(PathName(text[k].path), r.images)
        /\ text = <<>> => (r.ok /\ r.text = text /\ r.images = <<>>)
        /\ \A k \in 1..Len(r.images) : IsImageFile(r.images[k])

\* the media type that the extension of a filename stands for
MediaTypeOfExtension(name) ==
  LET ext == SplitLast(name)
  IN  IF ext \in {JPG, JPEG} THEN "image/jpeg"
      ELSE IF ext = PNG THEN "image/png"
      ELSE IF ext = GIF THEN "image/gif"
      ELSE ""

\* the image items of the manifest
ImageItems(doc) ==
  SelectSeq(doc.manifest, LAMBDA item : SubSeq(item.href, 1, Len(ImagesSlash)) = ImagesSlash)

\* C9 (as claimed): the media-type of every image item is the one of the
\* extension of its filename.
C9_MediaTypeByExtension ==
  builder = "pdf2epub" =>
  \A k \in 1..Len(ImageItems(opf)) :
    LET item == ImageItems(opf)[k]
    IN  item.media_type =
          MediaTypeOfExtension(SubSeq(item.href, Len(ImagesSlash) + 1, Len(item.href)))

\* C10 (as claimed): every package.opf has a dc:title and a dc:identifier
\* element with non-empty text.
C10_TitleAndIdentifierPresent ==
  (opf # NoOPF /\ builder = "pdf2epub") =>
    \A tag \in {"dc:title", "dc:identifier"} :
      \E k \in 1..Len(opf.metadata) :
        /\ opf.metadata[k].tag = tag
        /\ opf.metadata[k].text # ""

\* the elements of the metadata block with a given tag
MetadataElements(doc, tag) ==
  SelectSeq(doc.metadata, LAMBDA x : x.tag = tag)

\* C11 (as claimed): the unique-identifier attribute of the package element
\* is the id attribute of the dc:identifier element of the metadata block.
C11_UniqueIdentifierResolves ==
  opf # NoOPF =>
    \E k \in 1..Len(opf.metadata) :
      /\ opf.metadata[k].tag = "dc:identifier"
      /\ opf.metadata[k].id = opf.unique_identifier

\* C12: the metadata block has exactly one element for a Dublin Core field
\* whose value is non-empty, none for a field that is absent or empty, and
\* no Dublin Core element with empty text.
C12_EmptyFieldsOmitted ==
  opf # NoOPF =>
    /\ \A key \in FieldSet :
         Len(MetadataElements(opf, key)) =
           (IF key \in DOMAIN json_data.metadata /\ json_data.metadata[key] # ""
            THEN 1 ELSE 0)
    /\ \A k \in 1..Len(opf.metadata) :
         opf.metadata[k].tag \in FieldSet =>
           opf.metadata[k].text = json_data.metadata[opf.metadata[k].tag]
             /\ opf.metadata[k].text # ""

\* C12 witness: a package.opf built from a record whose dc:date is empty and
\* whose title is set
C12_Witness ==
  /\ opf # NoOPF
  /\ builder = "pdf2epub"
  /\ json_data.metadata["dc:date"] = ""
  /\ MetadataElements(opf, "dc:date") = <<>>
  /\ Len(MetadataElements(opf, "dc:title")) = 1

\* the positions of the manifest items that carry properties="cover-image"
CoverItems(doc) ==
  {k \in 1..Len(doc.manifest) : doc.manifest[k].properties = "cover-image"}

\* the <meta name="cover"> elements of the metadata block
CoverMetas(doc) ==
  SelectSeq(doc.metadata, LAMBDA x : x.tag = "meta" /\ x.name = "cover")

\* C13: when cover_image is the name of a listed image, exactly one manifest
\* item carries cover-image, it is the item of that image, and exactly one
\* <meta name="cover"> holds the id image-%05d of that item; when it is not,
\* no item carries the property and there is no such meta element.
C13_CoverImageMarked ==
  opf # NoOPF =>
    IF InList(json_data.cover_image, all_image_filenames)
    THEN /\ Cardinality(CoverItems(opf)) = 1
         /\ Len(CoverMetas(opf)) = 1
         /\ \A k \in CoverItems(opf) :
              /\ opf.manifest[k].href = ImagesSlash \o json_data.cover_image
              /\ \E i \in 1..Len(all_image_filenames) :
                   /\ all_image_filenames[i] = json_data.cover_image
                   /\ opf.manifest[k].id = ImageId(i - 1)
              /\ CoverMetas(opf)[1].content = opf.manifest[k].id
    ELSE /\ CoverItems(opf) = {}
         /\ CoverMetas(opf) = <<>>

\* C13 witness: a package.opf over two images whose second one is the cover
C13_Witness ==
  /\ opf # NoOPF
  /\ builder = "pdf2epub"
  /\ Len(all_image_filenames) = 2
  /\ json_data.cover_image = all_image_filenames[2]
  /\ CoverMetas(opf)[1].content = ImageId(1)

\* a package.opf whose descriptor names a cover that images/ does not list
C13_WitnessNoMatch ==
  /\ opf # NoOPF
  /\ json_data.cover_image = Z_png
  /\ all_image_filenames # <<>>

\* C14 (as claimed): after a successful build every stylesheet of the
\* manifest has its member OPS/css/<filename>, with the bytes of the source
\* file when css/<filename> exists and the built-in stylesheet when the file
\* or the css/ directory is missing.
C14_EveryStylesheetWritten ==
  pc = "done" =>
    \A i \in 1..Len(all_css_filenames) :
      LET css == all_css_filenames[i]
      IN  \E k \in 1..Len(archive) :
            /\ archive[k].name = OpsSlash \o CssSlash \o css
            /\ archive[k].data =
                 FileData(IF fs.css_dir /\ css \in fs.css THEN "css" ELSE "default_css", css)

\* C14 restricted to the modules builder with a css/ directory
C14_ModulesWithCssDirectory ==
  (builder = "modules" /\ fs.css_dir) => C14_EveryStylesheetWritten

\* whether the archive has a member of a name with given contents
HasMember(name, data) ==
  \E k \in 1..Len(archive) : archive[k].name = name /\ archive[k].data = data

\* C15 (as claimed): after a successful build every referenced image of
\* images/ on which copy_and_optimize_image did not raise is the member
\* OPS/images/<filename> with the bytes that copy_and_optimize_image
\* produced, whatever its extension, and every listed image that no chapter
\* references is a member with its original bytes.
C15_ImageMembers ==
  (builder = "pdf2epub" /\ pc = "done") =>
    \A image \in Range(all_image_filenames) :
      IF image \in all_referenced_images
      THEN image \notin raised =>
             HasMember(OpsSlash \o ImagesSlash \o image,
                       FileData(IF pil THEN "optimized" ELSE "copy", image))
      ELSE HasMember(OpsSlash \o ImagesSlash \o image, FileData("copy", image))

\* C16 (as claimed): a failure on one image does not end the build, and an
\* image on which copy_and_optimize_image raised is not a member of the
\* archive of a successful build.
C16_ImageFailureSkipsImage ==
  builder = "pdf2epub" =>
    /\ err # "OSError: open image"
    /\ pc = "done" =>
         \A image \in raised : OpsSlash \o ImagesSlash \o image \notin MemberNames

\* the part of C16 about the build going on
C16_ImageFailureNeverAborts ==
  builder = "pdf2epub" => err # "OSError: open image"

\* the part of C16 about the failed image being left out
C16_FailedImageNotWritten ==
  (builder = "pdf2epub" /\ pc = "done") =>
    \A image \in raised : OpsSlash \o ImagesSlash \o image \notin MemberNames

\* C17: convert_to_epub on a directory that is missing or holds no *.md
\* file goes nowhere but to its error: main is not entered, so nothing is
\* prompted, no description.json is written and no archive is created.
C17_ConvertToEpubRejects ==
  (entry = "convert_to_epub"
     /\ (~fs.dir_exists \/ {f \in fs.files : EndsWith(f, DotMd)} = {})) =>
    /\ pc \in {"start", "failed"}
    /\ pc = "failed" =>
         err = (IF fs.dir_exists THEN "ValueError: No markdown files found"
                ELSE "FileNotFoundError: Markdown directory not found")
    /\ ~fs.has_desc
    /\ json_data = NoJson
    /\ archive_path = <<>>
    /\ archive = <<>>

\* C17 witness: convert_to_epub has failed on a directory that exists and
\* holds a file, but no markdown file
C17_Witness ==
  /\ entry = "convert_to_epub"
  /\ pc = "failed"
  /\ err = "ValueError: No markdown files found"
  /\ fs.files = {N_txt}

\* convert_to_epub has failed on a missing directory
C17_WitnessMissing ==
  /\ entry = "convert_to_epub"
  /\ pc = "failed"
  /\ err = "FileNotFoundError: Markdown directory not found"

\* C18: when a directory that had no description.json is built again,
\* unchanged, and the user accepts every default, the second build works
\* with the metadata and the chapter list that the first one saved, saves
\* the same description.json again, and its manifest and spine list the
\* same items in the same order.
C18_SecondBuildReproduces ==
  (builder = "pdf2epub" /\ run = 2 /\ pc \notin {"start", "metadata"}) =>
    /\ json_data.metadata = first.desc.metadata
    /\ json_data.chapters = first.desc.chapters
    /\ json_data.default_css = first.desc.default_css
    /\ fs.desc = first.desc
    /\ (opf # NoOPF /\ first.built) =>
         /\ opf.manifest = first.manifest
         /\ opf.spine = first.spine

\* C18 witness: a second build, after the clock has moved on, that finished
\* with the identifier and the date that the first build took from the clock
C18_Witness ==
  /\ builder = "pdf2epub"
  /\ run = 2
  /\ pc = "done"
  /\ first.built
  /\ now = 2
  /\ json_data.metadata["dc:identifier"] = HardDefault("dc:identifier", 1)
  /\ json_data.metadata["dc:date"] = HardDefault("dc:date", 1)
  /\ Len(json_data.chapters) = 2

\* Path(f).stem
StemOf(f) == SubSeq(f, 1, LastDot(f, Len(f)) - 1)

\* the names of a set ordered by their stems
RECURSIVE SortedByStem(_)
SortedByStem(S) ==
  IF S = {} THEN <<>>
  ELSE LET m == CHOOSE x \in S : \A y \in S \ {x} : StrLess(StemOf(x), StemOf(y))
       IN  <<m>> \o SortedByStem(S \ {m})

\* every *.md file of the chapter directory, once, in the order of the stems
MdFilesByStem ==
  LET sorted == SortedByStem({f \in fs.files : EndsWith(f, DotMd)})
  IN  [k \in 1..Len(sorted) |-> Chapter(sorted[k], <<>>)]

\* C19 (as claimed): once the descriptor is read, the chapter list of the
\* first build is the list that description.json declared when it declared
\* a non-empty one, and otherwise every *.md file of the directory, once,
\* sorted by stem.
C19_ChapterList ==
  (run = 1 /\ fs.has_desc /\ pc \notin {"start", "metadata", "m_load"}) =>
    json_data.chapters = (IF first.given # <<>> THEN first.given ELSE MdFilesByStem)

\* the first half of C19: a declared list is taken as it is
C19_DeclaredListKept ==
  (run = 1 /\ fs.has_desc /\ pc \notin {"start", "metadata", "m_load"}
     /\ first.given # <<>>) =>
    json_data.chapters = first.given

\* the second half of C19 with file names, not stems, giving the order
C19_ScannedByName ==
  (run = 1 /\ fs.has_desc /\ pc \notin {"start", "metadata", "m_load"}
     /\ first.given = <<>> /\ (builder = "modules" => first.fresh)) =>
    json_data.chapters = ScannedChapters(fs.files)

\* whether a saved size keeps to max_dimension, is the source size when no
\* side of the source exceeds max_dimension, and otherwise has each side
\* within one pixel of the source side times max_dimension / longest side
SizeWithinBounds(call) ==
  LET longest == IF call.size[1] >= call.size[2] THEN call.size[1] ELSE call.size[2]
      m == call.max_dimension
  IN  /\ call.saved_size[1] <= m
      /\ call.saved_size[2] <= m
      /\ longest <= m => call.saved_size = call.size
      /\ longest > m =>
           \A i \in {1, 2} :
             LET d == call.saved_size[i] * longest - call.size[i] * m
             IN  d <= longest /\ -d <= longest

\* C20 (as claimed): whatever the source size and max_dimension, the size
\* that copy_and_optimize_image saves keeps to max_dimension, is the source
\* size when nothing exceeds it, and is otherwise the source scaled by
\* max_dimension / longest side to within one pixel.
C20_SavedSizeBounded ==
  image_call.at = "saved" => SizeWithinBounds(image_call)

\* C20 (amended): the same when Pillow is available; without Pillow the
\* source file is copied as it is, whatever its size.
C20_SavedSizeBoundedWithPillow ==
  /\ (image_call.at = "saved" /\ image_call.pil_available) => SizeWithinBounds(image_call)
  /\ (image_call.at = "saved" /\ ~image_call.pil_available) => image_call.saved_size = image_call.size

\* C20 witness: with Pillow, a source of 8 x 3 pixels saved for
\* max_dimension 5, the short side truncated from 1.875 to 1
C20_Witness ==
  /\ image_call.at = "saved"
  /\ image_call.pil_available
  /\ image_call.size = <<8, 3>>
  /\ image_call.max_dimension = 5
  /\ image_call.saved_size = <<5, 1>>

\* the value that C21 states for a metadata field: the reply (as input()
\* returns it, stripped) when it is not empty, else the stored value when
\* the descriptor has the field, else the hard-coded default
ExpectedField(key) ==
  IF Strip(replies[key]) # "" THEN Strip(replies[key])
  ELSE IF key \in DOMAIN first.existing.metadata THEN first.existing.metadata[key]
  ELSE HardDefault(key, now)

\* C21: once main holds the result of get_metadata_from_user, each of the
\* seven fields is the user's reply when that is not empty, else the value
\* stored in the existing descriptor when it has the field, else the
\* hard-coded default, and the chapters, default_css and cover_image of the
\* existing descriptor are passed through.
C21_MetadataFromUser ==
  (builder = "pdf2epub" /\ run = 1 /\ fs.has_desc /\ pc \notin {"start", "metadata"}) =>
    /\ DOMAIN json_data.metadata = FieldSet
    /\ \A key \in FieldSet : json_data.metadata[key] = ExpectedField(key)
    /\ first.existing.has_css => json_data.default_css = first.existing.default_css
    /\ first.existing.chapters # <<>> => json_data.chapters = first.existing.chapters
    /\ json_data.cover_image = first.existing.cover_image

\* C21 witness: the title was typed, the identifier came from the
\* descriptor and the date, which the descriptor lacks, from the default
C21_Witness ==
  /\ builder = "pdf2epub"
  /\ run = 1
  /\ pc = "done"
  /\ replies["dc:title"] = "My Reply"
  /\ "dc:title" \in DOMAIN first.existing.metadata
  /\ json_data.metadata["dc:title"] = "My Reply"
  /\ json_data.metadata["dc:identifier"] = "Stored"
  /\ "dc:date" \notin DOMAIN first.existing.metadata
  /\ json_data.metadata["dc:date"] = HardDefault("dc:date", now)

\* a build whose descriptor declared chapters, two stylesheets and a cover
C21_WitnessPassedThrough ==
  /\ builder = "pdf2epub"
  /\ pc = "done"
  /\ json_data.cover_image = P_png
  /\ json_data.chapters = <<Chapter(B_md, <<>>)>>

\* C22 (as claimed): review_markdown on a path that does not exist raises
\* nothing: main is told (False, reason) and returns as on an abort,
\* without a prompt.
C22_ReviewOfMissingFileReturns ==
  (builder = "pdf2epub" /\ pc = "failed") => err # "FileNotFoundError: read_text"

Finished == pc \in {"done", "aborted", "failed"}

MergedTitle ==
  IF "dc:title" \in DOMAIN first.existing.metadata THEN first.existing.metadata["dc:title"]
  ELSE IF fs.extraction # "" THEN fs.extraction
  ELSE HardDefault("dc:title", now)

\* C24 (as claimed): when the title prompt is left empty, the title of the
\* build is the existing descriptor's title, else the title of the sibling
\* <name>_metadata.json, else "Untitled Document".
C24_MetadataPrecedence ==
  (builder = "pdf2epub" /\ run = 1 /\ pc \notin {"start", "metadata"}
     /\ "dc:title" \in DOMAIN json_data.metadata /\ Strip(replies["dc:title"]) = "") =>
    json_data.metadata["dc:title"] = MergedTitle

\* the response texts that are no JSON documents
NotJson == {"invalid json {"}

\* run_postprocessing received an analysis response that is no JSON document
ReceivedInvalidJson ==
  /\ ai.ai_provider = "anthropic" /\ ai.prompt_ok /\ ai.sample = "ok"
  /\ ~ai.responses[1].raises
  /\ \/ ai.responses[1].text \in NotJson
     \/ ~ai.responses[2].raises /\ ai.responses[2].text \in NotJson

AIEnded == ai.at \in {"returned", "raised"}

\* C25: a call of run_postprocessing with a provider other than "anthropic"
\* ends with ValueError, a call that receives an analysis response that is
\* not valid JSON ends with the decode error, in both cases with
\* patterns.json as it was and process_markdown not invoked; patterns.json
\* changes only after both responses were parsed.
C25_FailsWithoutSideEffects ==
  /\ (ai.ai_provider # "anthropic" /\ AIEnded) =>
       /\ ai.at = "raised" /\ ai.error = "ValueError"
       /\ ai.patterns = ai.before /\ ai.process_markdown = 0
  /\ (ReceivedInvalidJson /\ AIEnded) =>
       /\ ai.at = "raised" /\ ai.error = "JSONDecodeError"
       /\ ai.patterns = ai.before /\ ai.process_markdown = 0
  /\ ai.patterns # ai.before => ai.parsed = 2
  /\ ai.process_markdown > 0 => ai.patterns # ai.before

\* C25 witness: the second response was the invalid one, over an older
\* patterns.json
C25_Witness ==
  /\ ai.at = "raised"
  /\ ai.error = "JSONDecodeError"
  /\ ai.parsed = 1
  /\ ai.before = OldPatterns
  /\ ai.patterns = OldPatterns

\* the call that succeeds: both responses merged into patterns.json
C25_WitnessWritten ==
  /\ ai.at = "returned"
  /\ ai.patterns = [exists |-> TRUE, data |-> JsonDict("patterns" :> 3 @@ "improvements" :> 2)]

C25_WitnessProvider == ai.at = "raised" /\ ai.error = "ValueError"

\* C26: when the user aborts during the review of a chapter, main has
\* created no archive, generated no document, rendered no chapter and
\* processed no image, and description.json already holds the descriptor of
\* this run.
C26_AbortLeavesNoArchive ==
  pc = "aborted" =>
    /\ builder = "pdf2epub"
    /\ archive_path = <<>> /\ archive = <<>>
    /\ opf = NoOPF /\ toc = NoTOC /\ ncx = <<>>
    /\ chapter_data = <<>>
    /\ all_referenced_images = {} /\ processed_images = <<>> /\ raised = {}
    /\ fs.has_desc
    /\ fs.desc = Descriptor(json_data.metadata, TRUE, json_data.default_css,
                            json_data.chapters, json_data.cover_image)

\* C26 witness: the abort came at the second chapter of a directory that had
\* no description.json, after the first chapter was reviewed
C26_Witness ==
  /\ pc = "aborted"
  /\ idx = 2
  /\ first.fresh
  /\ run = 1
  /\ A_md \in DOMAIN chapter_contents

\* the positions of the archive members under OPS/images/
ImageMemberPositions ==
  {k \in 1..Len(archive) :
     /\ Len(archive[k].name) > Len(OpsSlash \o ImagesSlash)
     /\ SubSeq(archive[k].name, 1, Len(OpsSlash \o ImagesSlash)) = OpsSlash \o ImagesSlash}

\* C27 (as claimed): no two members of the archive, of either builder, have
\* the same name.
C27_MemberNamesUnique ==
  \A i \in 1..Len(archive), j \in 1..Len(archive) :
    i # j => archive[i].name # archive[j].name

\* C27 (as claimed, the image case): no image is written to the archive of
\* either builder twice under the same OPS/images/<filename>.
C27_ImageWrittenOnce ==
  \A i \in ImageMemberPositions, j \in ImageMemberPositions :
    i # j => archive[i].name # archive[j].name

\* C27 (as claimed, for src/pdf2epub/mark2epub.py alone)
C27_MemberNamesUniquePdf2epub == builder = "pdf2epub" => C27_MemberNamesUnique

\* the names of the archive members under OPS/images/
ImageMemberNames == {archive[k].name : k \in ImageMemberPositions}

\* the member names that the image items of the manifest point to
ManifestImageNames ==
  {OpsSlash \o opf.manifest[k].href :
     k \in {n \in 1..Len(opf.manifest) :
              /\ Len(opf.manifest[n].href) > Len(ImagesSlash)
              /\ SubSeq(opf.manifest[n].href, 1, Len(ImagesSlash)) = ImagesSlash}}

\* C28 (as claimed): after a successful build the members under OPS/images/
\* are the images that the manifest lists, no more and no less.
C28_ImageMembersAreManifestImages ==
  (builder = "pdf2epub" /\ pc = "done") => ImageMemberNames = ManifestImageNames

\* whether the manifest has a css-%05d item whose href is the given link
HasCssItem(link) ==
  \E k \in 1..Len(opf.manifest), n \in 1..Len(all_css_filenames) :
    /\ opf.manifest[k].id = CssId(n - 1)
    /\ opf.manifest[k].href = link
    /\ link = CssSlash \o all_css_filenames[n]

\* C29: once the package document is generated, every stylesheet that a
\* rendered chapter links and every stylesheet that TOC.xhtml links has a
\* css-%05d item of the manifest with that href.
C29_LinkedStylesheetsInManifest ==
  (builder = "pdf2epub" /\ opf # NoOPF) =>
    /\ \A md \in DOMAIN chapter_data :
         \A i \in 1..Len(chapter_data[md].css) : HasCssItem(chapter_data[md].css[i])
    /\ toc # NoTOC => \A i \in 1..Len(toc.css) : HasCssItem(toc.css[i])

\* C29 witness: two chapter entries name a.md, the second with the override
\* x.css, and the chapter written links both style.css and x.css
C29_Witness ==
  /\ builder = "pdf2epub"
  /\ pc = "done"
  /\ json_data.chapters = <<Chapter(A_md, <<>>), Chapter(A_md, X_css)>>
  /\ json_data.default_css = <<StyleCss>>
  /\ chapter_data[A_md].css = <<CssSlash \o StyleCss, CssSlash \o X_css>>
  /\ toc.css = <<CssSlash \o StyleCss>>

\* the rank of a stage in the order PDF-to-Markdown, AI postprocessing,
\* Markdown-to-EPUB
StageRank(stage) == CASE stage = "markdown" -> 1 [] stage = "ai" -> 2 [] stage = "epub" -> 3

CliEnded == cli.at \in {"returned", "exited"}

\* C30 (order and AI failures): the stages are started PDF by PDF and, for
\* one PDF, in the order Markdown, AI, EPUB, none of them when its flag skips
\* it; after a failed AI stage the EPUB stage of the same PDF is started.
C30_StagesInOrder ==
  /\ \A i \in 1..Len(cli.log), j \in 1..Len(cli.log) :
       i < j =>
         \/ cli.log[i].pdf < cli.log[j].pdf
         \/ /\ cli.log[i].pdf = cli.log[j].pdf
            /\ StageRank(cli.log[i].stage) < StageRank(cli.log[j].stage)
  /\ \A i \in 1..Len(cli.log) :
       /\ cli.log[i].stage = "markdown" => ~cli.skip_md
       /\ cli.log[i].stage = "ai" => ~cli.skip_ai
       /\ cli.log[i].stage = "epub" => ~cli.skip_epub
  /\ \A i \in 1..Len(cli.log) :
       (cli.log[i].stage = "ai" /\ ~cli.log[i].ok /\ ~cli.skip_epub
          /\ (CliEnded \/ cli.k > cli.log[i].pdf)) =>
         \E j \in 1..Len(cli.log) :
           j > i /\ cli.log[j].pdf = cli.log[i].pdf /\ cli.log[j].stage = "epub"

\* C30 (as claimed, failures of the Markdown and EPUB stages): when cli.main
\* ends, every PDF of the queue was taken up, whatever stage failed for the
\* PDFs before it.
C30_FailureEndsOnlyThatPdf ==
  CliEnded => cli.k = Len(cli.queue)

====
